---- MODULE Spec2Model ----
(***************************************************************************)
(* Position execution and exit management of the Telegram trading bot.     *)
(*                                                                         *)
(* One token is modelled (positions are keyed by token address and share   *)
(* no state).  Units: prices are integers; every percentage that the code  *)
(* keeps as a float (percent_change, PROFIT_TARGET, STOP_LOSS, TRAILING_   *)
(* STOP, ROIs, TP triggers) is held in hundredths of a percent, so 58% is  *)
(* 5800 and -20.01% is -2001.  With buy_price = 10000 the code's           *)
(* ((p - buy) / buy) * 100 is exactly p - 10000 in these units.            *)
(* sold_percentage and sell percentages are whole percents as in the code. *)
(* Time is in seconds.                                                     *)
(***************************************************************************)
EXTENDS Integers, Sequences, FiniteSets, TLC

VARIABLES
    cfg,                    \* class Config: the strategy settings
    tracked,                \* token in Config.price_tracking
    td,                     \* Config.price_tracking[token]
    auto_sell_locks,        \* Config.auto_sell_locks: "absent" | "True" | "False"
    websocket_subscriptions,\* token in websocket_subscriptions
    volume_present,         \* token in volume_history
    volume_history,         \* volume_history[token]: <<ts, vol>> samples
    balance,                \* token lamports held by the wallet
    sells,                  \* invocations of sell_token_async
    buys,                   \* per confirmed buy: waiter task, tracker thread, ws listener
    menu,                   \* interactive_menu: "idle" or the sell slot it awaits
    now,                    \* wall clock
    stop_event,             \* config.stop_event
    events,                 \* number of environment events so far
    last_eval,              \* the latest call of check_enhanced_sell_conditions
    seen,                   \* the highest percent_change written so far, the share
                            \* sold by sales that a TP level asked for, and the
                            \* number of sells that failed for good
    paper,                  \* PaperConfig: paper portfolio, tracking, lock, tasks
    swap,                   \* a call of execute_swap_async and its recursive retries
    submit,                 \* a call of submit_transaction_parallel_async
    tip,                    \* a call of calculate_tip_amount and network_status
    confirm,                \* a call of confirm_transaction_async
    telegram,               \* Config.processed_addresses and the buy threads started
    safety                  \* the latest call of check_token_safety by a buy

vars == <<cfg, tracked, td, auto_sell_locks, websocket_subscriptions,
          volume_present, volume_history, balance, sells, buys, menu, now,
          stop_event, last_eval, events, seen, paper, swap, submit, tip, confirm,
          telegram, safety>>

----------------------------------------------------------------------------
(* Bounds of the model *)

MaxSells == 2           \* concurrent sell_token_async invocations
MaxBuys == 2            \* confirmed buys of the token in one behaviour
MaxHistory == 3         \* price_history entries appended by tracker ticks
MaxClockSteps == 1      \* clock advances in one behaviour

(* Values out of the float domain *)
NoneVal == -2           \* Python None returned by a probe
CoroObj == -1           \* an un-awaited coroutine object

IsNumber(x) == x >= 0

----------------------------------------------------------------------------
(* Program constants *)

BUY_PRICE == 10000              \* price_per_token of the confirmed buy
BUY_LAMPORTS == 1000            \* tokens received by one buy
DEFAULT_SLIPPAGE == 1           \* Config.DEFAULT_SLIPPAGE (percent)
ESCALATED_SLIPPAGE == 5         \* the 5.0 of sell_token_async
ESCALATED_PERCENTAGE == 50      \* the 50 of sell_token_async
HISTORY_CAP == 100              \* price_history capacity
MIN_VOLUME_SAMPLES == 10
WINDOW_1MIN == 60
WINDOW_5MIN == 300
WINDOW_30MIN == 1800
VOLUME_RETENTION == 3600
DAY_SECONDS == 86400
WAIT_MAX_ATTEMPTS == 20         \* wait_for_tokens_and_start_tracking_async
PRICE_CHECK_DURATION == 86400   \* Config.PRICE_CHECK_DURATION
\* amounts of paper SOL are counted in units of 0.000005 SOL
SOL_UNITS == 200000
PAPER_SOL_BALANCE == 10 * SOL_UNITS     \* PaperConfig.PAPER_SOL_BALANCE = 10.0
PAPER_BUY_AMOUNT == SOL_UNITS           \* PaperConfig.PAPER_BUY_AMOUNT = 1.0
CLOCK_STEP == 50000             \* granularity of the modelled clock

----------------------------------------------------------------------------
(* Arithmetic of the tracker, in hundredths of a percent *)

\* ((num) / den) * 100
Pct(num, den) == (num * 10000) \div den

\* buy_price * (1 + roi / 100)
RoiPrice(buy_price, roi) == buy_price + (buy_price * roi) \div 10000

RECURSIVE SumSeq(_)
SumSeq(s) == IF s = <<>> THEN 0 ELSE Head(s) + SumSeq(Tail(s))

\* [f(s[i]) : i \in 1..Len(s), keep(s[i])] in order
RECURSIVE SelectVol(_, _, _)
SelectVol(history, time_now, window) ==
    IF history = <<>> THEN <<>>
    ELSE LET rest == SelectVol(Tail(history), time_now, window)
             age == (time_now - Head(history)[1]) % DAY_SECONDS  \* timedelta.seconds
         IN IF age <= window THEN <<Head(history)[2]>> \o rest ELSE rest

----------------------------------------------------------------------------
(* Config.parse_tp_levels: TP_LEVELS is the comma separated string, held as *)
(* the sequence of its items; an item is [colon, pct, profit], colon says   *)
(* whether the item holds a ':'.  Items without one are skipped.            *)

RECURSIVE parse_items(_)
parse_items(items) ==
    IF items = <<>> THEN <<>>
    ELSE IF Head(items).colon
         THEN << <<Head(items).pct, Head(items).profit>> >> \o parse_items(Tail(items))
         ELSE parse_items(Tail(items))

parse_tp_levels(c) ==
    IF ~c.ENABLE_MULTI_TP THEN <<>> ELSE parse_items(c.TP_LEVELS)

----------------------------------------------------------------------------
(* The exit evaluator.  A decision is the returned triple, the tracking     *)
(* data as the call leaves it, and whether the call raised instead.         *)

Decision(s, tag, arg, pct, t, raised) ==
    [should_sell |-> s, reason |-> [tag |-> tag, arg |-> arg],
     sell_percentage |-> pct, td |-> t, raised |-> raised]

\* the for loop of check_multi_level_tp from level i on
RECURSIVE tp_scan(_, _, _, _, _)
tp_scan(tp_levels, i, cumulative_sold, sold_so_far, percent_change) ==
    IF i > Len(tp_levels) THEN [hit |-> FALSE, profit_target |-> 0, amount_to_sell |-> 0]
    ELSE LET sell_pct == tp_levels[i][1]
             profit_target == tp_levels[i][2]
             cumulative == cumulative_sold + sell_pct
         IN IF sold_so_far < cumulative /\ percent_change >= profit_target
            THEN [hit |-> TRUE, profit_target |-> profit_target, amount_to_sell |-> sell_pct]
            ELSE tp_scan(tp_levels, i + 1, cumulative, sold_so_far, percent_change)

check_multi_level_tp(t, c) ==
    IF ~c.ENABLE_MULTI_TP THEN Decision(FALSE, "Multi-TP disabled", 0, 0, t, FALSE)
    ELSE LET r == tp_scan(parse_tp_levels(c), 1, 0, t.sold_percentage, t.percent_change)
         IN IF r.hit
            THEN Decision(TRUE, "TP Level reached", r.profit_target, r.amount_to_sell, t, FALSE)
            ELSE Decision(FALSE, "No TP levels hit", 0, 0, t, FALSE)

\* check_volume_conditions with the test of the number of samples left out
check_volume_conditions_any_samples(c, present, history, time_now) ==
    IF ~c.ENABLE_VOLUME_MONITORING \/ ~present
    THEN [alert |-> FALSE, tag |-> "Volume monitoring disabled or no data"]
    ELSE LET vol_1min == SumSeq(SelectVol(history, time_now, WINDOW_1MIN))
             vol_5min == SumSeq(SelectVol(history, time_now, WINDOW_5MIN))
             vol_30min == SumSeq(SelectVol(history, time_now, WINDOW_30MIN))
             spike == /\ vol_5min > 0
                      /\ 10 * vol_1min > 4 * vol_5min
                      /\ 5 * vol_1min > c.VOLUME_SPIKE_MULTIPLIER * vol_5min
             dryup == /\ vol_30min > 0
                      /\ 30 * 100 * vol_5min < 5 * c.VOLUME_DRYUP_PERCENT * vol_30min
         IN IF spike THEN [alert |-> TRUE, tag |-> "Volume spike detected"]
            ELSE IF dryup THEN [alert |-> TRUE, tag |-> "Volume dried up"]
            ELSE [alert |-> FALSE, tag |-> "Normal volume"]

check_volume_conditions(c, present, history, time_now) ==
    IF ~c.ENABLE_VOLUME_MONITORING \/ ~present
    THEN [alert |-> FALSE, tag |-> "Volume monitoring disabled or no data"]
    ELSE IF Len(history) < MIN_VOLUME_SAMPLES
    THEN [alert |-> FALSE, tag |-> "Insufficient volume data"]
    ELSE LET vol_1min == SumSeq(SelectVol(history, time_now, WINDOW_1MIN))
             vol_5min == SumSeq(SelectVol(history, time_now, WINDOW_5MIN))
             vol_30min == SumSeq(SelectVol(history, time_now, WINDOW_30MIN))
             \* vol_1min > vol_5min * 0.4 and vol_1min / (vol_5min / 5) > MULTIPLIER
             spike == /\ vol_5min > 0
                      /\ 10 * vol_1min > 4 * vol_5min
                      /\ 5 * vol_1min > c.VOLUME_SPIKE_MULTIPLIER * vol_5min
             \* vol_5min / 5 < (vol_30min / 30) * (DRYUP / 100)
             dryup == /\ vol_30min > 0
                      /\ 30 * 100 * vol_5min < 5 * c.VOLUME_DRYUP_PERCENT * vol_30min
         IN IF spike THEN [alert |-> TRUE, tag |-> "Volume spike detected"]
            ELSE IF dryup THEN [alert |-> TRUE, tag |-> "Volume dried up"]
            ELSE [alert |-> FALSE, tag |-> "Normal volume"]

\* lines 955-960: the stop follows the high-water ROI
update_trailing_stop(t, c) ==
    LET high_roi == Pct(t.high_price - t.buy_price, t.buy_price)
    IN IF c.EXIT_STRATEGY = "TRAILING_STOP" /\ high_roi > 0
       THEN [t EXCEPT !.trailing_stop_roi = high_roi - c.TRAILING_STOP,
                      !.trailing_stop_price = RoiPrice(t.buy_price, high_roi - c.TRAILING_STOP)]
       ELSE t

\* lines 962-965: a new high; highest_roi takes the ROI of the previous high
update_high_price(t, high_roi) ==
    IF t.current_price > t.high_price
    THEN [t EXCEPT !.high_price = t.current_price, !.highest_roi = high_roi]
    ELSE t

\* line 980, with the comparison made strict
stop_loss_strict(t, c) == t.percent_change < c.STOP_LOSS

\* line 980: if percent_change <= Config.STOP_LOSS
stop_loss_hit(t, c) == t.percent_change <= c.STOP_LOSS

\* lines 980-1002: stop loss, trailing stop, max hold time
check_loss_trail_hold(t, c, high_roi, time_now) ==
    IF stop_loss_hit(t, c)
    THEN Decision(TRUE, "Stop loss triggered", t.percent_change, 100, t, FALSE)
    ELSE LET trailing == c.EXIT_STRATEGY = "TRAILING_STOP" /\ high_roi > 0
             t1 == IF trailing /\ t.trailing_stop_price = 0
                   THEN [t EXCEPT !.trailing_stop_price =
                                       RoiPrice(t.buy_price, high_roi - c.TRAILING_STOP),
                                  !.trailing_stop_roi = high_roi - c.TRAILING_STOP]
                   ELSE t
         IN IF trailing /\ t1.current_price < t1.trailing_stop_price
            THEN Decision(TRUE, "Trailing stop triggered", t1.trailing_stop_roi, 100, t1, FALSE)
            ELSE IF time_now - t1.buy_time > c.MAX_HOLD_TIME
            THEN Decision(TRUE, "Max hold time reached", 0, 100, t1, FALSE)
            ELSE Decision(FALSE, "No sell conditions met", 0, 0, t1, FALSE)

\* lines 967-978: the profit target, by exit strategy
check_profit_target(t, c, high_roi, time_now) ==
    IF t.percent_change >= c.PROFIT_TARGET /\ c.EXIT_STRATEGY = "FULL_TP"
    THEN Decision(TRUE, "Profit target reached", t.percent_change, 100, t, FALSE)
    ELSE IF t.percent_change >= c.PROFIT_TARGET /\ c.EXIT_STRATEGY = "TRAILING_STOP"
    THEN LET t1 == IF t.trailing_stop_price = 0
                   THEN [t EXCEPT !.trailing_stop_price =
                                       RoiPrice(t.buy_price, t.percent_change - c.TRAILING_STOP),
                                  !.trailing_stop_roi = t.percent_change - c.TRAILING_STOP,
                                  !.tp_reached = TRUE]
                   ELSE t
         IN Decision(FALSE, "Profit target reached but using trailing stop only", 0, 0, t1, FALSE)
    ELSE check_loss_trail_hold(t, c, high_roi, time_now)

check_sell_conditions(is_tracked, lock, t, c, time_now) ==
    IF ~is_tracked THEN Decision(FALSE, "Token not tracked", 0, 0, t, FALSE)
    ELSE IF lock = "True" THEN Decision(FALSE, "Already selling", 0, 0, t, FALSE)
    ELSE LET high_roi == Pct(t.high_price - t.buy_price, t.buy_price)
             t1 == update_trailing_stop(t, c)
         IN IF ~IsNumber(t1.current_price)
            THEN Decision(FALSE, "TypeError", 0, 0, t1, TRUE)   \* coroutine > float
            ELSE check_profit_target(update_high_price(t1, high_roi), c, high_roi, time_now)

check_enhanced_sell_conditions(is_tracked, lock, t, c, present, history, time_now) ==
    LET tp == check_multi_level_tp(t, c)
        vol == check_volume_conditions(c, present, history, time_now)
    IN IF c.ENABLE_MULTI_TP /\ tp.should_sell THEN tp
       ELSE IF c.ENABLE_VOLUME_MONITORING /\ vol.alert
       THEN Decision(TRUE, "Volume alert", 0, 100, t, FALSE)
       ELSE check_sell_conditions(is_tracked, lock, t, c, time_now)

----------------------------------------------------------------------------
(* State of the program *)

Prices == {7999, 13500, 15500}   \* quotes of the price probe
MenuPercentages == {0, 60, 100}                    \* what the user types at the menu
QuoteImpacts == {0, 250}                               \* priceImpactPct of a sell quote

DefaultLevels ==
    << [colon |-> TRUE, pct |-> 25, profit |-> 3000],
       [colon |-> TRUE, pct |-> 25, profit |-> 5000],
       [colon |-> TRUE, pct |-> 25, profit |-> 10000],
       [colon |-> TRUE, pct |-> 25, profit |-> 20000] >>

\* class Config as loaded from the environment, websocket monitoring switched on
DefaultConfig ==
    [EXIT_STRATEGY |-> "TRAILING_STOP", PROFIT_TARGET |-> 5000, STOP_LOSS |-> -2000,
     TRAILING_STOP |-> 1500, MAX_HOLD_TIME |-> 43200, AUTO_SELL |-> TRUE,
     AUTO_TRADE |-> TRUE,
     ENABLE_MULTI_TP |-> TRUE, TP_LEVELS |-> DefaultLevels,
     ENABLE_VOLUME_MONITORING |-> TRUE, VOLUME_SPIKE_MULTIPLIER |-> 3,
     VOLUME_DRYUP_PERCENT |-> 10, ENABLE_WEBSOCKET |-> TRUE,
     USE_ORDER_SPLITTING |-> TRUE, SPLIT_THRESHOLD_IMPACT |-> 200,
     MAX_SWAP_RETRIES |-> 5, PRICE_IMPACT_WARNING |-> 500, PRICE_IMPACT_ABORT |-> 1000,
     PRIORITY_FEE_MODE |-> "auto",
     BUY_AMOUNT |-> 50, CHECK_HONEYPOT |-> TRUE, MIN_LIQUIDITY_USD |-> 1000,
     MAX_POSITION_SIZE_PERCENT |-> 5]

\* the dict start_price_tracking stores
NewTrackingData(buy_price, current_time) ==
    [buy_price |-> buy_price, current_price |-> buy_price, buy_time |-> current_time,
     last_check |-> current_time, high_price |-> buy_price, low_price |-> buy_price,
     percent_change |-> 0, trailing_stop_price |-> 0, tp_reached |-> FALSE,
     highest_roi |-> 0, trailing_stop_roi |-> 0,
     price_history |-> << <<current_time, buy_price>> >>, sold_percentage |-> 0]

\* value of td while the token has no entry in Config.price_tracking
NoTrackingData == NewTrackingData(0, 0)

NoReason == [tag |-> "Manual sell", arg |-> 0]

\* an invocation of sell_token_async; signal is the reason of the evaluation
\* that created the task ("none" for a call from the menu)
IdleSell ==
    [pc |-> "idle", origin |-> "none", signal |-> "none", percentage |-> 0,
     slippage |-> 0, sell_amount |-> 0, exit_reason |-> NoReason, splitting |-> FALSE]

\* failed counts the sells reported as "CRITICAL: Failed to sell"
NoneSeen == [peak |-> 0, tp_sold |-> 0, failed |-> 0]

\* the dict start_paper_price_tracking stores (it has no sold_percentage)
NewPaperTrackingData(buy_price, current_time) ==
    [buy_price |-> buy_price, current_price |-> buy_price, buy_time |-> current_time,
     last_check |-> current_time, high_price |-> buy_price, low_price |-> buy_price,
     percent_change |-> 0, trailing_stop_price |-> 0, tp_reached |-> FALSE,
     highest_roi |-> 0, trailing_stop_roi |-> 0,
     price_history |-> << <<current_time, buy_price>> >>]

\* a call of paper_sell_token_async awaited by the menu
IdlePaperSell == [pc |-> "idle", percentage |-> 0, token_amount |-> 0]

\* PaperConfig before the first paper buy.  tokens is the amount held in
\* paper_portfolio["tokens"] (0: no entry); task is the sell task created by
\* the tracker; signal is the reason of the sell signal of the tracker and
\* signal_free says that no paper sell held the lock when it was given
NoPaper ==
    [tokens |-> 0, tracked |-> FALSE, td |-> NewPaperTrackingData(0, 0),
     lock |-> "absent", tracker |-> "none", end_time |-> 0, task |-> "none",
     signal |-> "none", signal_free |-> FALSE, manual |-> IdlePaperSell,
     buys |-> 0, events |-> 0, sol_balance |-> PAPER_SOL_BALANCE]

\* no call of execute_swap_async under way.  amount0 and slippage0 are the
\* arguments of the outermost call; hist lists the attempts made
NoSwap ==
    [impl |-> "none", pc |-> "idle", input_is_sol |-> FALSE, amount0 |-> 0, slippage0 |-> 0,
     amount_in |-> 0, slippage_percent |-> 0, retry_count |-> 0, max_retries |-> NoneVal,
     success |-> FALSE, hist |-> <<>>]

\* no call of submit_transaction_parallel_async under way
NoSubmit ==
    [pc |-> "idle", tx_sig |-> NoneVal, jito_task |-> "none", regular |-> "none",
     jito_result |-> NoneVal, regular_result |-> NoneVal, first |-> "none"]

\* no call of calculate_tip_amount.  level and fresh are network_status: the
\* cached congestion level and whether it is younger than update_interval;
\* sample is what get_recent_performance_samples gives: RaisedVal for an
\* error, NoneVal for no samples, or the average transactions per slot
NoTip ==
    [pc |-> "idle", level |-> "medium", fresh |-> FALSE, sample |-> NoneVal,
     result |-> NoneVal]

\* no call of confirm_transaction_async.  outer is the retry_count of the
\* attempt of execute_swap_async that awaits the confirmation; err says that
\* the chain records the transaction of the signature as failed (meta.err of
\* getTransaction, err of getSignatureStatuses); checks lists what each
\* status check saw
NoConfirm ==
    [pc |-> "idle", max_retries |-> NoneVal, outer |-> 0, err |-> FALSE,
     checks |-> <<>>, result |-> FALSE]

\* no message handled yet.  threads lists the buy threads started by the
\* handlers: detected is the address of the loop iteration that started the
\* thread, address is the one its lambda hands to buy_token
NoTelegram == [processed_addresses |-> {}, threads |-> <<>>, messages |-> 0]

\* what the database and the two Jupiter quotes answer for a token:
\* honeypot is db.is_known_honeypot, raises an exception anywhere inside the
\* try block, quote the 0.001 SOL probe, buy_quote the quote for the buy
\* amount with its priceImpactPct (hundredths of a percent, NoneVal when the
\* key is missing) and outAmount
Token(honeypot, raises, quote, buy_quote, impact, out) ==
    [honeypot |-> honeypot, raises |-> raises, quote |-> quote, buy_quote |-> buy_quote,
     priceImpactPct |-> impact, outAmount |-> out]

\* a token with a pool and no measurable price impact
SafeToken == Token(FALSE, FALSE, TRUE, TRUE, 0, 1000)

\* no buy has run its safety check yet
NoSafety ==
    [pc |-> "none", token |-> SafeToken, is_safe |-> FALSE, safety_msg |-> "none",
     swap_called |-> FALSE]

NoBuy == [waiter |-> "none", attempt |-> 0, tracker |-> "none", end_time |-> 0, ws |-> "none"]

NoEval ==
    [caller |-> "none", tracked |-> FALSE, lock |-> "absent", pre |-> NoTrackingData,
     time_now |-> 0, dec |-> Decision(FALSE, "none", 0, 0, NoTrackingData, FALSE)]

SellSlots == 1..MaxSells
BuySlots == 1..MaxBuys

InFlight(i) == sells[i].pc \in {"balance", "quote", "swap"}

FreeSellSlots == {i \in SellSlots : sells[i].pc = "idle"}
FreeBuySlots == {i \in BuySlots : buys[i].waiter = "none"}

Min(S) == CHOOSE x \in S : \A y \in S : x <= y

Evaluation(caller, d) ==
    [caller |-> caller, tracked |-> tracked, lock |-> auto_sell_locks, pre |-> td,
     time_now |-> now, dec |-> d]

InitWith(c) ==
    /\ cfg = c
    /\ tracked = FALSE
    /\ td = NoTrackingData
    /\ auto_sell_locks = "absent"
    /\ websocket_subscriptions = FALSE
    /\ volume_present = FALSE
    /\ volume_history = <<>>
    /\ balance = 0
    /\ sells = [i \in SellSlots |-> IdleSell]
    /\ buys = [i \in BuySlots |-> NoBuy]
    /\ menu = "idle"
    /\ now = 0
    /\ stop_event = FALSE
    /\ last_eval = NoEval
    /\ events = 0
    /\ seen = NoneSeen
    /\ paper = NoPaper
    /\ swap = NoSwap
    /\ submit = NoSubmit
    /\ tip = NoTip
    /\ confirm = NoConfirm
    /\ telegram = NoTelegram
    /\ safety = NoSafety

Init == InitWith(DefaultConfig)

----------------------------------------------------------------------------
(* Buying, and the start of tracking *)

MaxPollFailures == 1     \* balance polls of one waiter that see no tokens
MaxEvents == 2           \* price updates, menu sells, tracker iterations, volume
                         \* samples, clock steps and signals of one behaviour

\* Config.price_tracking_tasks: no statement of the program stores into it
price_tracking_tasks == {}

\* line 61: float(buy_quote.get('priceImpactPct', 100))
quote_price_impact(token) == IF token.priceImpactPct = NoneVal THEN 10000 ELSE token.priceImpactPct

\* lines 72 and 75: estimated_liquidity = buy_amount_sol / price_impact * 100 is
\* below MIN_LIQUIDITY_USD / 100; buy_amount_sol in thousandths of a SOL and
\* impact in hundredths of a percent, infinite liquidity at no impact
insufficient_liquidity(buy_amount_sol, impact, c) ==
    impact > 0 /\ buy_amount_sol * 1000 < c.MIN_LIQUIDITY_USD * impact

\* line 79: buy_amount_sol / estimated_liquidity * 100, which is the price
\* impact again, in hundredths of a percent
position_percent(buy_amount_sol, impact) == IF impact > 0 THEN impact ELSE 0

Verdict(is_safe, msg) == [is_safe |-> is_safe, msg |-> msg]

\* check_token_safety: the first check that fails names the verdict, and an
\* exception inside the try block is a verdict too
check_token_safety(token, buy_amount_sol, c) ==
    LET impact == quote_price_impact(token) IN
    IF token.raises THEN Verdict(FALSE, "Safety check error")
    ELSE IF c.CHECK_HONEYPOT /\ token.honeypot
    THEN Verdict(FALSE, "Token marked as honeypot/scam")
    ELSE IF ~token.quote THEN Verdict(FALSE, "No liquidity pool found")
    ELSE IF ~token.buy_quote THEN Verdict(FALSE, "Failed to get buy quote")
    ELSE IF impact > c.PRICE_IMPACT_ABORT THEN Verdict(FALSE, "Price impact too high")
    ELSE IF token.outAmount > 0 /\ insufficient_liquidity(buy_amount_sol, impact, c)
    THEN Verdict(FALSE, "Insufficient liquidity")
    ELSE IF /\ token.outAmount > 0
            /\ position_percent(buy_amount_sol, impact) > c.MAX_POSITION_SIZE_PERCENT * 100
    THEN Verdict(FALSE, "Position too large")
    ELSE Verdict(TRUE, "Token passed safety checks")

proceeds_unchecked(is_safe) == TRUE

\* lines 130-135: "if not is_safe: ... return False" lets a buy go on to the
\* swap only after a safe verdict
proceeds(is_safe) == is_safe

\* the record of a buy's safety check and of whether the buy went on to call
\* execute_swap_async
Checked(token, c) ==
    LET verdict == check_token_safety(token, c.BUY_AMOUNT, c) IN
    [pc |-> "checked", token |-> token, is_safe |-> verdict.is_safe,
     safety_msg |-> verdict.msg, swap_called |-> proceeds(verdict.is_safe)]

\* buy_token_async awaited by the menu: safety check, swap, record, and the two
\* tasks it creates on the menu's event loop
buy_token_async(token, ok) ==
    /\ menu = "idle"
    /\ FreeBuySlots # {}
    /\ safety' = Checked(token, cfg)
    /\ IF safety'.swap_called /\ ok
       THEN /\ balance' = balance + BUY_LAMPORTS
            /\ buys' = [buys EXCEPT ![Min(FreeBuySlots)] =
                          [NoBuy EXCEPT !.waiter = "polling",
                                        !.ws = IF cfg.ENABLE_WEBSOCKET THEN "setup" ELSE "none"]]
       ELSE UNCHANGED <<balance, buys>>
    /\ UNCHANGED <<cfg, tracked, td, auto_sell_locks, websocket_subscriptions,
                   volume_present, volume_history, sells, menu, now, stop_event,
                   last_eval, events, seen, paper, swap, submit, tip, confirm, telegram>>

\* buy_token, the synchronous wrapper that the Telegram handler runs in a
\* thread of its own: run_until_complete returns as soon as buy_token_async
\* returns, and loop.close() follows.  The two tasks buy_token_async created on
\* that loop are suspended in their first network request by then and are
\* never resumed
buy_token(token, ok) ==
    /\ FreeBuySlots # {}
    /\ safety' = Checked(token, cfg)
    /\ IF safety'.swap_called /\ ok
       THEN /\ balance' = balance + BUY_LAMPORTS
            /\ buys' = [buys EXCEPT ![Min(FreeBuySlots)] =
                          [NoBuy EXCEPT !.waiter = "abandoned",
                                        !.ws = IF cfg.ENABLE_WEBSOCKET THEN "abandoned"
                                               ELSE "none"]]
       ELSE UNCHANGED <<balance, buys>>
    /\ UNCHANGED <<cfg, tracked, td, auto_sell_locks, websocket_subscriptions,
                   volume_present, volume_history, sells, menu, now, stop_event,
                   last_eval, events, seen, paper, swap, submit, tip, confirm, telegram>>

\* one balance poll of wait_for_tokens_and_start_tracking_async; a poll that
\* finds the tokens calls start_price_tracking, which starts the tracker thread
wait_for_tokens_and_start_tracking_async(i, lamports) ==
    /\ buys[i].waiter = "polling"
    /\ IF lamports > 0
       THEN IF "token" \in price_tracking_tasks
            THEN /\ buys' = [buys EXCEPT ![i].waiter = "done"]
                 /\ UNCHANGED <<tracked, td, auto_sell_locks>>
            ELSE /\ tracked' = TRUE
                 /\ td' = NewTrackingData(BUY_PRICE, now)
                 /\ auto_sell_locks' = "False"
                 /\ buys' = [buys EXCEPT ![i].waiter = "done", ![i].tracker = "running",
                                         ![i].end_time = now + PRICE_CHECK_DURATION]
       ELSE /\ buys[i].attempt < MaxPollFailures
            /\ buys' = [buys EXCEPT ![i].attempt = @ + 1,
                                    ![i].waiter = IF buys[i].attempt + 1 >= WAIT_MAX_ATTEMPTS
                                                  THEN "done" ELSE "polling"]
            /\ UNCHANGED <<tracked, td, auto_sell_locks>>
    /\ UNCHANGED <<cfg, websocket_subscriptions, volume_present, volume_history,
                   balance, sells, menu, now, stop_event, last_eval, events, seen, paper, swap, submit, tip, confirm, telegram, safety>>

----------------------------------------------------------------------------
(* The tracker thread of a buy: asyncio.run(track_token_price(...)) *)

\* what "await asyncio.to_thread(check_token_price, token)" evaluates to:
\* check_token_price is a coroutine function (async def), so the worker thread
\* only creates the coroutine object and hands it back un-awaited
to_thread_check_token_price == CoroObj

append_price_history_unbounded(history, entry) == Append(history, entry)

\* lines 740-743: append, then keep the last 100 entries
append_price_history(history, entry) ==
    LET h == Append(history, entry)
    IN IF Len(h) > HISTORY_CAP THEN SubSeq(h, Len(h) - HISTORY_CAP + 1, Len(h)) ELSE h

\* one iteration of the while loop
track_token_price(i) ==
    /\ buys[i].tracker = "running"
    /\ IF now >= buys[i].end_time \/ stop_event
       THEN \* "Completed price tracking"
            /\ buys' = [buys EXCEPT ![i].tracker = "ended"]
            /\ UNCHANGED td
       ELSE IF ~tracked
       THEN \* "No tracking data": return
            /\ buys' = [buys EXCEPT ![i].tracker = "ended"]
            /\ UNCHANGED td
       ELSE LET current_price == to_thread_check_token_price
            IN /\ current_price # NoneVal
               /\ \/ Len(td.price_history) < MaxHistory
                  \/ Len(td.price_history) >= HISTORY_CAP - MaxHistory
               \* lines 736-743, then db.record_price_point raises on the
               \* coroutine object and the except clause ends the iteration
               /\ ~IsNumber(current_price)
               /\ td' = [td EXCEPT !.current_price = current_price,
                                   !.last_check = now,
                                   !.price_history =
                                       append_price_history(@, <<now, current_price>>)]
               /\ UNCHANGED buys
    /\ UNCHANGED <<cfg, tracked, auto_sell_locks, websocket_subscriptions,
                   volume_present, volume_history, balance, sells, menu, now,
                   stop_event, last_eval, seen, paper, swap, submit, tip, confirm, telegram, safety>>
    /\ events < MaxEvents /\ events' = events + 1

RECURSIVE AbsChanges(_)
AbsChanges(prices) ==
    IF Len(prices) < 2 THEN <<>>
    ELSE LET d == prices[2] - prices[1]
         IN <<IF d < 0 THEN -d ELSE d>> \o AbsChanges(Tail(prices))

LastN(s, n) == IF Len(s) > n THEN SubSeq(s, Len(s) - n + 1, Len(s)) ELSE s

\* get_token_volume: None, a TypeError (abs of coroutine - float), or the estimate
get_token_volume ==
    IF tracked /\ Len(td.price_history) > 2
    THEN LET recent == LastN(td.price_history, 10)
             recent_prices == [k \in 1..Len(recent) |-> recent[k][2]]
         IN IF \E k \in 1..Len(recent) : ~IsNumber(recent_prices[k])
            THEN CoroObj
            ELSE (SumSeq(AbsChanges(recent_prices)) * 10000) \div (Len(recent) - 1)
    ELSE NoneVal

RECURSIVE EvictOld(_, _)
EvictOld(history, cutoff_time) ==
    IF history = <<>> THEN <<>>
    ELSE IF Head(history)[1] > cutoff_time
         THEN <<Head(history)>> \o EvictOld(Tail(history), cutoff_time)
         ELSE EvictOld(Tail(history), cutoff_time)

\* track_volume, called by the tracker's track_volume_periodic task
track_volume(i) ==
    /\ buys[i].tracker = "running"
    /\ cfg.ENABLE_VOLUME_MONITORING
    /\ tracked /\ ~stop_event
    /\ volume_present' = TRUE
    /\ LET current_volume == get_token_volume
       IN volume_history' =
              IF IsNumber(current_volume)
              THEN EvictOld(Append(volume_history, <<now, current_volume>>),
                            now - VOLUME_RETENTION)
              ELSE volume_history
    /\ UNCHANGED <<cfg, tracked, td, auto_sell_locks, websocket_subscriptions,
                   balance, sells, buys, menu, now, stop_event, last_eval, seen, paper, swap, submit, tip, confirm, telegram, safety>>
    /\ events < MaxEvents /\ events' = events + 1

----------------------------------------------------------------------------
(* WebSocket monitoring, on the menu's event loop *)

\* setup_websocket_monitoring: connect, subscribe, start the listener
setup_websocket_monitoring(i, ok) ==
    /\ buys[i].ws = "setup"
    /\ IF ok
       THEN /\ websocket_subscriptions' = TRUE
            /\ buys' = [buys EXCEPT ![i].ws = "listening"]
       ELSE /\ buys' = [buys EXCEPT ![i].ws = "failed"]
            /\ UNCHANGED websocket_subscriptions
    /\ UNCHANGED <<cfg, tracked, td, auto_sell_locks, volume_present, volume_history,
                   balance, sells, menu, now, stop_event, last_eval, events, seen, paper, swap, submit, tip, confirm, telegram, safety>>

\* the sell task a caller creates with asyncio.create_task
create_sell_task(origin, d) ==
    [IdleSell EXCEPT !.pc = "created", !.origin = origin, !.signal = d.reason.tag,
                     !.percentage = d.sell_percentage]

\* lines 454-461: what check_token_price_immediate writes before it evaluates
immediate_price_update(t, current_price, time_now) ==
    [t EXCEPT !.current_price = current_price,
              !.last_check = time_now,
              !.percent_change = IF t.buy_price > 0
                                 THEN Pct(current_price - t.buy_price, t.buy_price)
                                 ELSE 0]

\* check_token_price_immediate once "await check_token_price" has returned
\* current_price; the price comes from the provider's quote and is an input
check_token_price_immediate(current_price) ==
    IF current_price # NoneVal /\ current_price # 0 /\ tracked
    THEN LET t1 == immediate_price_update(td, current_price, now)
             d == check_enhanced_sell_conditions(tracked, auto_sell_locks, t1, cfg,
                                                 volume_present, volume_history, now)
         IN /\ seen' = [seen EXCEPT !.peak = IF t1.percent_change > @
                                                THEN t1.percent_change ELSE @]
            /\ IF ~cfg.AUTO_SELL
               THEN /\ td' = t1
                    /\ UNCHANGED sells
               ELSE /\ td' = d.td
                    /\ IF d.should_sell /\ ~d.raised
                       THEN sells' = [sells EXCEPT ![Min(FreeSellSlots)] =
                                         create_sell_task("auto", d)]
                       ELSE UNCHANGED sells
    ELSE UNCHANGED <<td, sells, seen>>

\* one iteration of websocket_listen_for_token: the loop ends when the token
\* is not tracked or the stop event is set; an account update runs the
\* immediate price check
websocket_listen_for_token(i, current_price) ==
    /\ buys[i].ws = "listening"
    /\ IF ~tracked \/ stop_event
       THEN /\ buys' = [buys EXCEPT ![i].ws = "ended"]
            /\ UNCHANGED <<td, sells, seen>>
       ELSE /\ FreeSellSlots # {}
            /\ events < MaxEvents
            /\ check_token_price_immediate(current_price)
            /\ UNCHANGED buys
    /\ events' = IF ~tracked \/ stop_event THEN events ELSE events + 1
    /\ UNCHANGED <<cfg, tracked, auto_sell_locks, websocket_subscriptions,
                   volume_present, volume_history, balance, menu, now, stop_event,
                   last_eval, paper, swap, submit, tip, confirm, telegram, safety>>

----------------------------------------------------------------------------
(* sell_token_async: entry, balance, then quote and swap                   *)

SPLIT_CHUNKS == 2     \* execute_swap_with_splitting at a price impact of at most 3%
Chunks == 1..SPLIT_CHUNKS

\* lines 506-520: from the call to the first await.  entry.slot is where the
\* coroutine stands afterwards ("idle" when it has returned False)
sell_entry(lock, caller, percentage, slippage) ==
    IF lock = "True"
    THEN [lock |-> lock, slot |-> IdleSell]
    ELSE IF percentage < 1 \/ percentage > 100
    THEN [lock |-> "False", slot |-> IdleSell]
    ELSE [lock |-> "True",
          slot |-> [IdleSell EXCEPT !.pc = "balance", !.origin = caller.origin,
                                    !.signal = caller.signal,
                                    !.percentage = percentage,
                                    !.slippage = IF slippage = 0 THEN DEFAULT_SLIPPAGE
                                                 ELSE slippage]]

\* the menu goes back to its prompt when the sell it awaits has returned
menu_after(slot, origin) == IF origin = "manual" /\ slot.pc = "idle" THEN "idle" ELSE menu

\* a sell task created by a price check starts to run
sell_token_async(i) ==
    /\ sells[i].pc = "created"
    /\ LET entry == sell_entry(auto_sell_locks, sells[i], sells[i].percentage,
                               sells[i].slippage)
       IN /\ auto_sell_locks' = entry.lock
          /\ sells' = [sells EXCEPT ![i] = entry.slot]
    /\ UNCHANGED <<cfg, tracked, td, websocket_subscriptions, volume_present,
                   volume_history, balance, buys, menu, now, stop_event, last_eval, events, seen, paper, swap, submit, tip, confirm, telegram, safety>>

\* menu option "sell": await sell_token_async(token, percentage)
menu_sell(percentage) ==
    /\ menu = "idle"
    /\ FreeSellSlots # {}
    /\ LET entry == sell_entry(auto_sell_locks, [IdleSell EXCEPT !.origin = "manual"], percentage, 0)
       IN /\ auto_sell_locks' = entry.lock
          /\ sells' = [sells EXCEPT ![Min(FreeSellSlots)] = entry.slot]
          /\ menu' = IF entry.slot.pc = "idle" THEN "idle" ELSE "selling"
    /\ events < MaxEvents
    /\ events' = events + 1
    /\ UNCHANGED <<cfg, tracked, td, websocket_subscriptions, volume_present,
                   volume_history, balance, buys, now, stop_event, last_eval, seen, paper, swap, submit, tip, confirm, telegram, safety>>

\* lines 523-548: the balance has arrived; amount to sell and exit reason
sell_after_balance(i, lamports) ==
    /\ sells[i].pc = "balance"
    /\ IF lamports = 0
       THEN /\ auto_sell_locks' = "False"
            /\ sells' = [sells EXCEPT ![i] = IdleSell]
            /\ menu' = menu_after(IdleSell, sells[i].origin)
            /\ UNCHANGED td
       ELSE LET sell_amount == (lamports * sells[i].percentage) \div 100
                d == check_enhanced_sell_conditions(tracked, auto_sell_locks, td, cfg,
                                                    volume_present, volume_history, now)
            IN IF ~tracked
               THEN /\ sells' = [sells EXCEPT ![i].pc = "swap",
                                              ![i].sell_amount = sell_amount]
                    /\ UNCHANGED <<td, auto_sell_locks, menu>>
               ELSE IF d.raised
               THEN \* except Exception: release and return False
                    /\ td' = d.td
                    /\ auto_sell_locks' = "False"
                    /\ sells' = [sells EXCEPT ![i] = IdleSell]
                    /\ menu' = menu_after(IdleSell, sells[i].origin)
               ELSE /\ td' = d.td
                    /\ sells' = [sells EXCEPT ![i].pc = "swap",
                                              ![i].sell_amount = sell_amount,
                                              ![i].exit_reason = d.reason]
                    /\ UNCHANGED <<auto_sell_locks, menu>>
    /\ UNCHANGED <<cfg, tracked, websocket_subscriptions, volume_present,
                   volume_history, balance, buys, now, stop_event, last_eval, events, seen, paper, swap, submit, tip, confirm, telegram, safety>>

\* lines 551-554: the quote of the sale (NoneVal: none) decides on splitting
use_splitting(quote) ==
    LET price_impact == IF quote = NoneVal THEN 0 ELSE quote
    IN cfg.USE_ORDER_SPLITTING /\ price_impact > cfg.SPLIT_THRESHOLD_IMPACT

\* what the chunks that went through took out of the wallet
swapped_amount(amount_in, splitting, ok_chunks) ==
    LET chunk_size == amount_in \div SPLIT_CHUNKS
        chunk_amount(k) == IF k = SPLIT_CHUNKS
                           THEN amount_in - chunk_size * (SPLIT_CHUNKS - 1)
                           ELSE chunk_size
    IN IF ~splitting
       THEN IF ok_chunks = {} THEN 0 ELSE amount_in
       ELSE SumSeq([k \in Chunks |-> IF k \in ok_chunks THEN chunk_amount(k) ELSE 0])

\* lines 563-616: bookkeeping of a sale that went through
record_sale(t, percentage) ==
    IF percentage < 100
    THEN [t EXCEPT !.sold_percentage = @ + percentage]
    ELSE t

\* lines 622 and 629: a failed sell is tried again
retry_due(me) ==
    \/ me.slippage < ESCALATED_SLIPPAGE
    \/ (me.percentage > ESCALATED_PERCENTAGE /\ me.slippage >= ESCALATED_SLIPPAGE)

\* lines 551-639: quote and swap have returned; ok_chunks are the chunks that
\* went through (both or none for a swap that is not split)
sell_after_swap(i, quote, ok_chunks) ==
    /\ sells[i].pc = "swap"
    /\ use_splitting(quote) \/ ok_chunks \in {{}, Chunks}
    /\ LET me == [sells[i] EXCEPT !.splitting = use_splitting(quote)]
           out == swapped_amount(me.sell_amount, me.splitting, ok_chunks)
           success == ok_chunks # {}
           retry == IF me.slippage < ESCALATED_SLIPPAGE
                    THEN sell_entry("False", me, me.percentage, ESCALATED_SLIPPAGE)
                    ELSE sell_entry("False", me, ESCALATED_PERCENTAGE, me.slippage)
       IN /\ out <= balance
          /\ balance' = balance - out
          /\ seen' = IF success /\ me.signal = "TP Level reached"
                     THEN [seen EXCEPT !.tp_sold = @ + me.percentage]
                     ELSE IF ~success /\ retry_due(me) THEN seen
                     ELSE IF ~success THEN [seen EXCEPT !.failed = @ + 1]
                     ELSE seen
          /\ IF success
             THEN /\ IF tracked /\ me.percentage = 100
                     THEN /\ tracked' = FALSE
                          /\ td' = NoTrackingData
                          /\ websocket_subscriptions' = FALSE
                     ELSE /\ td' = IF tracked THEN record_sale(td, me.percentage) ELSE td
                          /\ UNCHANGED <<tracked, websocket_subscriptions>>
                  /\ auto_sell_locks' = "False"
                  /\ sells' = [sells EXCEPT ![i] = IdleSell]
                  /\ menu' = menu_after(IdleSell, me.origin)
             ELSE IF retry_due(me)
             THEN \* release the lock and call sell_token_async again
                  /\ auto_sell_locks' = retry.lock
                  /\ sells' = [sells EXCEPT ![i] = retry.slot]
                  /\ menu' = menu_after(retry.slot, me.origin)
                  /\ UNCHANGED <<tracked, td, websocket_subscriptions>>
             ELSE /\ auto_sell_locks' = "False"
                  /\ sells' = [sells EXCEPT ![i] = IdleSell]
                  /\ menu' = menu_after(IdleSell, me.origin)
                  /\ UNCHANGED <<tracked, td, websocket_subscriptions>>
    /\ UNCHANGED <<cfg, volume_present, volume_history, buys, now, stop_event, last_eval, events, paper, swap, submit, tip, confirm, telegram, safety>>

----------------------------------------------------------------------------
(* The environment: shutdown signal and the wall clock *)

signal_handler ==
    /\ ~stop_event
    /\ stop_event' = TRUE
    /\ UNCHANGED <<cfg, tracked, td, auto_sell_locks, websocket_subscriptions,
                   volume_present, volume_history, balance, sells, buys, menu, now,
                   last_eval, seen, paper, swap, submit, tip, confirm, telegram, safety>>
    /\ events < MaxEvents /\ events' = events + 1

clock_advance ==
    /\ now < MaxClockSteps * CLOCK_STEP
    /\ now' = now + CLOCK_STEP
    /\ UNCHANGED <<cfg, tracked, td, auto_sell_locks, websocket_subscriptions,
                   volume_present, volume_history, balance, sells, buys, menu,
                   stop_event, last_eval, seen, paper, swap, submit, tip, confirm, telegram, safety>>
    /\ events < MaxEvents /\ events' = events + 1

Next ==
    \/ \E ok \in BOOLEAN : buy_token_async(SafeToken, ok)
    \/ \E ok \in BOOLEAN : buy_token(SafeToken, ok)
    \/ \E i \in BuySlots, lamports \in {0, balance} :
           wait_for_tokens_and_start_tracking_async(i, lamports)
    \/ \E i \in BuySlots : track_token_price(i)
    \/ \E i \in BuySlots : track_volume(i)
    \/ \E i \in BuySlots, ok \in BOOLEAN : setup_websocket_monitoring(i, ok)
    \/ \E i \in BuySlots, current_price \in Prices \cup {NoneVal} :
           websocket_listen_for_token(i, current_price)
    \/ \E percentage \in MenuPercentages : menu_sell(percentage)
    \/ \E i \in SellSlots : sell_token_async(i)
    \/ \E i \in SellSlots, lamports \in {0, balance} : sell_after_balance(i, lamports)
    \/ \E i \in SellSlots, quote \in QuoteImpacts \cup {NoneVal}, ok_chunks \in SUBSET Chunks :
           sell_after_swap(i, quote, ok_chunks)
    \/ signal_handler
    \/ clock_advance

Spec == Init /\ [][Next]_vars

\* time passes the end of a tracking window (end_time of track_token_price)
tracking_window_passes ==
    /\ now < PRICE_CHECK_DURATION
    /\ now' = now + PRICE_CHECK_DURATION
    /\ UNCHANGED <<cfg, tracked, td, auto_sell_locks, websocket_subscriptions,
                   volume_present, volume_history, balance, sells, buys, menu,
                   stop_event, last_eval, events, seen, paper, swap, submit, tip, confirm, telegram, safety>>

\* the life of the tracking loop: started by a buy, ended by a full sell from
\* the menu, by the shutdown signal or by the end of its window
NextTrack ==
    \/ \E ok \in BOOLEAN : buy_token_async(SafeToken, ok)
    \/ \E i \in BuySlots, lamports \in {0, balance} :
           wait_for_tokens_and_start_tracking_async(i, lamports)
    \/ \E i \in BuySlots : track_token_price(i)
    \/ menu_sell(100)
    \/ \E i \in SellSlots, lamports \in {0, balance} : sell_after_balance(i, lamports)
    \/ \E i \in SellSlots, quote \in QuoteImpacts \cup {NoneVal}, ok_chunks \in SUBSET Chunks :
           sell_after_swap(i, quote, ok_chunks)
    \/ signal_handler
    \/ tracking_window_passes

SpecTrack == Init /\ [][NextTrack]_vars

\* main, once stop_event is set: menu_task.cancel().  CancelledError is
\* raised in the menu task at the await where it stands; inside a sell that it
\* awaits, the error passes "except Exception" of sell_token_async (it is a
\* BaseException) and the coroutine ends without another statement
menu_task_cancel ==
    /\ stop_event
    /\ menu # "cancelled"
    /\ menu' = "cancelled"
    /\ sells' = [i \in SellSlots |->
                    IF sells[i].origin = "manual" /\ InFlight(i) THEN IdleSell
                    ELSE sells[i]]
    /\ UNCHANGED <<cfg, tracked, td, auto_sell_locks, websocket_subscriptions,
                   volume_present, volume_history, balance, buys, now, stop_event,
                   last_eval, events, seen, paper, swap, submit, tip, confirm, telegram, safety>>

\* sells from the menu up to the shutdown of the program
NextShutdown ==
    \/ \E ok \in BOOLEAN : buy_token_async(SafeToken, ok)
    \/ \E i \in BuySlots, lamports \in {0, balance} :
           wait_for_tokens_and_start_tracking_async(i, lamports)
    \/ \E percentage \in MenuPercentages : menu_sell(percentage)
    \/ \E i \in SellSlots, lamports \in {0, balance} : sell_after_balance(i, lamports)
    \/ \E i \in SellSlots, quote \in QuoteImpacts \cup {NoneVal}, ok_chunks \in SUBSET Chunks :
           sell_after_swap(i, quote, ok_chunks)
    \/ signal_handler
    \/ menu_task_cancel

SpecShutdown == Init /\ [][NextShutdown]_vars

----------------------------------------------------------------------------
(* The Telegram message handlers.  handler_func has no await: the handlers  *)
(* of all chats run one after the other on the client's event loop.         *)

MaxMessages == 3         \* messages handled in one behaviour

Chats == {1, 2}
Addresses == {"A", "B"}

\* filtered_addresses of a message: filter_token_addresses keeps at most 2
FilteredAddresses ==
    {<<a>> : a \in Addresses} \cup {<<a, b>> : a \in Addresses, b \in Addresses}

\* line 231 at iteration k of the for loop: the address is new
new_address(filtered_addresses, k, processed) ==
    /\ filtered_addresses[k] \notin processed
    /\ \A j \in 1..(k - 1) : filtered_addresses[j] # filtered_addresses[k]

\* lines 254-256: the thread runs "lambda: buy_token(address, ...)", which
\* reads the loop variable address when the thread comes to run it: the
\* address of its own iteration, or, when the loop has gone on by then
\* (late), the address of the last iteration
lambda_address(filtered_addresses, k, late) ==
    IF late THEN filtered_addresses[Len(filtered_addresses)] ELSE filtered_addresses[k]

\* the threads started by one run of the for loop
started_threads(chat, filtered_addresses, processed, late) ==
    LET new == {k \in 1..Len(filtered_addresses) :
                   new_address(filtered_addresses, k, processed)}
        thread(k) == [chat |-> chat, detected |-> filtered_addresses[k],
                      address |-> lambda_address(filtered_addresses, k, late)]
    IN IF new = {} THEN <<>>
       ELSE IF 1 \in new /\ 2 \in new THEN <<thread(1), thread(2)>>
       ELSE IF 1 \in new THEN <<thread(1)>>
       ELSE <<thread(2)>>

\* handler_func of a chat on a message with these filtered addresses
handler_func(chat, filtered_addresses, late) ==
    /\ telegram.messages < MaxMessages
    /\ IF stop_event
       THEN telegram' = [telegram EXCEPT !.messages = @ + 1]
       ELSE telegram' =
              [telegram EXCEPT
                  !.messages = @ + 1,
                  !.processed_addresses =
                      @ \cup {filtered_addresses[k] : k \in 1..Len(filtered_addresses)},
                  !.threads =
                      IF cfg.AUTO_TRADE
                      THEN @ \o started_threads(chat, filtered_addresses,
                                                telegram.processed_addresses, late)
                      ELSE @]
    /\ UNCHANGED <<cfg, tracked, td, auto_sell_locks, websocket_subscriptions,
                   volume_present, volume_history, balance, sells, buys, menu, now,
                   stop_event, last_eval, events, seen, paper, swap, submit, tip,
                   confirm, safety>>

InitTelegram ==
    \E auto_trade \in BOOLEAN : InitWith([DefaultConfig EXCEPT !.AUTO_TRADE = auto_trade])

NextTelegram ==
    \/ \E chat \in Chats, filtered_addresses \in FilteredAddresses, late \in BOOLEAN :
           handler_func(chat, filtered_addresses, late)
    \/ signal_handler

SpecTelegram == InitTelegram /\ [][NextTelegram]_vars

TypeOK ==
    /\ auto_sell_locks \in {"absent", "False", "True"}
    /\ menu \in {"idle", "selling", "cancelled"}
    /\ tracked \in BOOLEAN

----------------------------------------------------------------------------
(* Paper trading: PaperConfig, the paper tracker thread and paper sells *)

PAPER_TOKENS == 100      \* tokens a paper buy adds to the paper portfolio

GAS_FEE_MIN == 1                        \* random.uniform(0.000005, 0.00001)
GAS_FEE_MAX == 2
GasFees == {GAS_FEE_MIN, GAS_FEE_MAX}

\* what the user types as the amount of a paper buy
PaperAmounts == {PAPER_BUY_AMOUNT, PAPER_SOL_BALANCE}

\* line 509: sol_amount or PaperConfig.PAPER_BUY_AMOUNT
paper_sol_amount(sol_amount) == IF sol_amount = 0 THEN PAPER_BUY_AMOUNT ELSE sol_amount

\* line 516: if sol_amount > paper_portfolio["sol_balance"]
insufficient(sol_amount, sol_balance) == sol_amount > sol_balance
MaxPaperBuys == 2
MaxPaperEvents == 3      \* price probes and menu sells of a paper run

\* lines 881-943 of track_paper_token_price: the inline evaluation; every
\* rule is looked at in turn and the last one that matches sets the reason
paper_sell_conditions(t, c, time_now) ==
    LET high_roi == IF t.buy_price > 0 THEN Pct(t.high_price - t.buy_price, t.buy_price) ELSE 0
        trailing == c.EXIT_STRATEGY = "TRAILING_STOP" /\ high_roi > 0
        t1 == IF trailing
              THEN [t EXCEPT !.trailing_stop_roi = high_roi - c.TRAILING_STOP,
                             !.trailing_stop_price =
                                 RoiPrice(t.buy_price, high_roi - c.TRAILING_STOP)]
              ELSE t
        target == t1.percent_change >= c.PROFIT_TARGET
        t2 == IF target /\ c.EXIT_STRATEGY = "TRAILING_STOP" /\ t1.trailing_stop_price = 0
              THEN [t1 EXCEPT !.trailing_stop_price =
                                  RoiPrice(t.buy_price, t.percent_change - c.TRAILING_STOP),
                              !.trailing_stop_roi = t.percent_change - c.TRAILING_STOP,
                              !.tp_reached = TRUE]
              ELSE t1
        t3 == IF trailing /\ t2.trailing_stop_price = 0
              THEN [t2 EXCEPT !.trailing_stop_price =
                                  RoiPrice(t.buy_price, high_roi - c.TRAILING_STOP),
                              !.trailing_stop_roi = high_roi - c.TRAILING_STOP]
              ELSE t2
        full_tp == target /\ c.EXIT_STRATEGY = "FULL_TP"
        stop_loss == t.percent_change <= c.STOP_LOSS
        trail == trailing /\ t3.current_price < t3.trailing_stop_price
        max_hold == time_now - t.buy_time > c.MAX_HOLD_TIME
    IN IF max_hold THEN Decision(TRUE, "Max hold time reached", 0, 100, t3, FALSE)
       ELSE IF trail
       THEN Decision(TRUE, "Trailing stop triggered", t3.trailing_stop_roi, 100, t3, FALSE)
       ELSE IF stop_loss
       THEN Decision(TRUE, "Stop loss triggered", t.percent_change, 100, t3, FALSE)
       ELSE IF full_tp
       THEN Decision(TRUE, "Profit target reached", t.percent_change, 100, t3, FALSE)
       ELSE Decision(FALSE, "No sell conditions met", 0, 0, t3, FALSE)

\* paper_buy_token_async awaited by the menu, with start_paper_price_tracking
paper_buy_token_async(ok, amount, gas_fee) ==
    /\ menu = "idle"
    /\ paper.buys < MaxPaperBuys
    /\ paper.tracked \/ paper.tracker \notin {"running", "returned"}
    /\ IF insufficient(paper_sol_amount(amount), paper.sol_balance)
       THEN \* "Insufficient paper SOL balance": return False
            paper' = [paper EXCEPT !.buys = @ + 1]
       ELSE IF ~ok
       THEN \* no quote
            paper' = [paper EXCEPT !.buys = @ + 1]
       ELSE IF paper.tracked
       THEN \* "Already tracking paper price"
            paper' = [paper EXCEPT !.buys = @ + 1, !.tokens = @ + PAPER_TOKENS,
                                   !.sol_balance = @ - (paper_sol_amount(amount) + gas_fee)]
       ELSE paper' = [paper EXCEPT !.buys = @ + 1,
                                   !.tokens = @ + PAPER_TOKENS,
                                   !.sol_balance = @ - (paper_sol_amount(amount) + gas_fee),
                                   !.tracked = TRUE,
                                   !.td = NewPaperTrackingData(BUY_PRICE, now),
                                   !.lock = "False",
                                   !.tracker = "running",
                                   !.end_time = now + PRICE_CHECK_DURATION,
                                   !.task = "none",
                                   !.signal = "none",
                                   !.signal_free = FALSE]
    /\ UNCHANGED <<cfg, tracked, td, auto_sell_locks, websocket_subscriptions,
                   volume_present, volume_history, balance, sells, buys, menu, now,
                   stop_event, last_eval, events, seen, swap, submit, tip, confirm, telegram, safety>>

PaperUnchanged ==
    UNCHANGED <<cfg, tracked, td, auto_sell_locks, websocket_subscriptions,
                volume_present, volume_history, balance, sells, buys, now,
                stop_event, last_eval, seen, swap, submit, tip, confirm, telegram, safety>>

\* lines 846-879: what an iteration writes once the probe has returned a price
paper_price_update(t, current_price, time_now) ==
    [t EXCEPT !.current_price = current_price,
              !.last_check = time_now,
              !.price_history = append_price_history(@, <<time_now, current_price>>),
              !.percent_change = IF t.buy_price > 0
                                 THEN Pct(current_price - t.buy_price, t.buy_price) ELSE 0,
              !.high_price = IF current_price > @ THEN current_price ELSE @,
              !.low_price = IF current_price < @ \/ @ = 0 THEN current_price ELSE @]

\* one iteration of the while loop of track_paper_token_price; current_price
\* is what "await check_paper_token_price" returned (NoneVal: no quote)
track_paper_token_price(current_price) ==
    /\ paper.tracker = "running"
    /\ menu' = menu /\ events' = events
    /\ IF now >= paper.end_time \/ stop_event
       THEN paper' = [paper EXCEPT !.tracker = "ended"]
       ELSE IF ~paper.tracked
       THEN paper' = [paper EXCEPT !.tracker = "ended"]
       ELSE IF paper.tokens = 0
       THEN paper' = [paper EXCEPT !.tracker = "ended", !.tracked = FALSE,
                                   !.td = NoPaper.td]
       ELSE /\ paper.events < MaxPaperEvents
            /\ IF current_price = NoneVal
               THEN paper' = [paper EXCEPT !.events = @ + 1]
               ELSE LET t1 == paper_price_update(paper.td, current_price, now)
                        d == paper_sell_conditions(t1, cfg, now)
                    IN paper' = IF d.should_sell
                                THEN \* create_task(paper_sell_token_async(token, 100)); return
                                     [paper EXCEPT !.events = @ + 1, !.td = d.td,
                                                   !.task = "created",
                                                   !.signal = d.reason.tag,
                                                   !.signal_free = paper.lock # "True",
                                                   !.tracker = "returned"]
                                ELSE [paper EXCEPT !.events = @ + 1, !.td = d.td]
    /\ PaperUnchanged

\* asyncio.run after track_paper_token_price has returned: the sell task it
\* left behind takes its first step and is cancelled at the await where it
\* suspends; CancelledError passes the "except Exception" of the sell.
\* cached: measure_rpc_delay answers from its cache without suspending
asyncio_run_shutdown(cached) ==
    /\ paper.tracker = "returned"
    /\ menu' = menu /\ events' = events
    /\ IF ~cached
       THEN \* cancelled inside "await measure_rpc_delay()", before the lock check
            paper' = [paper EXCEPT !.tracker = "ended", !.task = "cancelled"]
       ELSE IF paper.lock = "True"
       THEN \* "Already paper selling": return False
            paper' = [paper EXCEPT !.tracker = "ended", !.task = "refused"]
       ELSE IF paper.tokens = 0
       THEN paper' = [paper EXCEPT !.tracker = "ended", !.task = "refused",
                                   !.lock = "False"]
       ELSE \* lock taken, then cancelled inside "await get_quote_async(...)"
            paper' = [paper EXCEPT !.tracker = "ended", !.task = "cancelled",
                                   !.lock = "True"]
    /\ PaperUnchanged

\* menu option "paper sell": await paper_sell_token_async(token, percentage),
\* up to the await of the quote
paper_sell_token_async(percentage) ==
    /\ menu = "idle"
    /\ paper.tokens > 0                 \* the menu refuses a token not in the portfolio
    /\ paper.events < MaxPaperEvents
    /\ events' = events
    /\ IF paper.lock = "True"
       THEN /\ paper' = [paper EXCEPT !.events = @ + 1]
            /\ menu' = menu
       ELSE IF percentage < 1 \/ percentage > 100
       THEN /\ paper' = [paper EXCEPT !.events = @ + 1, !.lock = "False"]
            /\ menu' = menu
       ELSE /\ paper' = [paper EXCEPT !.events = @ + 1, !.lock = "True",
                                      !.manual = [pc |-> "quote", percentage |-> percentage,
                                                  token_amount |-> paper.tokens]]
            /\ menu' = "selling"
    /\ PaperUnchanged

\* outAmount of the sell quote: the provider quotes the tokens at the rate
\* of a buy of PAPER_BUY_AMOUNT
paper_quote_out(amount_to_sell) == (PAPER_BUY_AMOUNT * amount_to_sell) \div PAPER_TOKENS

\* lines 667-741: the quote has arrived and the simulated delay is over
paper_sell_after_quote(ok, gas_fee) ==
    /\ paper.manual.pc = "quote"
    /\ menu' = "idle" /\ events' = events
    /\ LET me == paper.manual
           amount_to_sell == (me.token_amount * me.percentage) \div 100
           net_sol_received == paper_quote_out(amount_to_sell) - gas_fee
       IN IF ~ok
          THEN paper' = [paper EXCEPT !.lock = "False", !.manual = IdlePaperSell]
          ELSE IF me.percentage = 100
          THEN paper' = [paper EXCEPT !.tokens = 0, !.tracked = FALSE, !.td = NoPaper.td,
                                      !.sol_balance = @ + net_sol_received,
                                      !.lock = "False", !.manual = IdlePaperSell]
          ELSE paper' = [paper EXCEPT !.tokens = me.token_amount - amount_to_sell,
                                      !.sol_balance = @ + net_sol_received,
                                      !.lock = "False", !.manual = IdlePaperSell]
    /\ PaperUnchanged

NextPaper ==
    \/ \E ok \in BOOLEAN, amount \in PaperAmounts, gas_fee \in GasFees :
           paper_buy_token_async(ok, amount, gas_fee)
    \/ \E current_price \in Prices \cup {NoneVal} : track_paper_token_price(current_price)
    \/ \E cached \in BOOLEAN : asyncio_run_shutdown(cached)
    \/ \E percentage \in MenuPercentages : paper_sell_token_async(percentage)
    \/ \E ok \in BOOLEAN, gas_fee \in GasFees : paper_sell_after_quote(ok, gas_fee)
    \/ clock_advance
    \/ signal_handler

SpecPaper == Init /\ [][NextPaper]_vars

----------------------------------------------------------------------------
(* The exit evaluator on its own: a tracked position, its settings and the  *)
(* prices it is shown are drawn from small sets, and every evaluation is    *)
(* recorded in last_eval                                                   *)

MaxEvalTicks == 3
EvalPrices == {7999, 8000, 11000, 13500, 15800, 17500}
EvalSold == {0, 10, 50}              \* sold_percentage left behind by earlier sells
EvalConfigs ==
    {[DefaultConfig EXCEPT !.EXIT_STRATEGY = strategy, !.ENABLE_MULTI_TP = multi_tp] :
        strategy \in {"FULL_TP", "TRAILING_STOP", "MULTI_TP"}, multi_tp \in BOOLEAN}

InitEval ==
    /\ cfg \in EvalConfigs
    /\ tracked = TRUE
    /\ td \in {[NewTrackingData(BUY_PRICE, 0) EXCEPT !.sold_percentage = sold] :
                  sold \in EvalSold}
    /\ auto_sell_locks \in {"False", "True"}
    /\ now \in {0, CLOCK_STEP}
    /\ websocket_subscriptions = FALSE
    /\ volume_present = FALSE
    /\ volume_history = <<>>
    /\ balance = BUY_LAMPORTS
    /\ sells = [i \in SellSlots |-> IdleSell]
    /\ buys = [i \in BuySlots |-> NoBuy]
    /\ menu = "idle"
    /\ stop_event = FALSE
    /\ last_eval = NoEval
    /\ events = 0
    /\ seen = NoneSeen
    /\ paper = NoPaper
    /\ swap = NoSwap
    /\ submit = NoSubmit
    /\ tip = NoTip
    /\ confirm = NoConfirm
    /\ telegram = NoTelegram
    /\ safety = NoSafety

\* lines 454-467 of check_token_price_immediate: a price is written and the
\* position is evaluated
evaluate(current_price) ==
    /\ events < MaxEvalTicks
    /\ events' = events + 1
    /\ LET t1 == immediate_price_update(td, current_price, now)
           d == check_enhanced_sell_conditions(tracked, auto_sell_locks, t1, cfg,
                                               volume_present, volume_history, now)
       IN /\ td' = d.td
          /\ last_eval' = [Evaluation("websocket", d) EXCEPT !.pre = t1]
    /\ UNCHANGED <<cfg, tracked, auto_sell_locks, websocket_subscriptions,
                   volume_present, volume_history, balance, sells, buys, menu, now,
                   stop_event, seen, paper, swap, submit, tip, confirm, telegram, safety>>

NextEval == \E current_price \in EvalPrices : evaluate(current_price)

SpecEval == InitEval /\ [][NextEval]_vars

----------------------------------------------------------------------------
(* The evaluator on a position with a volume history.  A history is three  *)
(* bands of samples in arrival order: older than 5 minutes, between 1 and  *)
(* 5 minutes old, and of the last minute.                                  *)

VOLUME_NOW == 2000      \* the time of the evaluations, in seconds

\* n samples of volume vol taken at time_now - age
Band(n, age, vol) == [k \in 1..n |-> <<VOLUME_NOW - age, vol>>]

VolumeHistories ==
    {Band(n30, 1000, a) \o Band(n5, 200, b) \o Band(n1, 30, c) :
        n30 \in {0, 6}, a \in {0, 5}, n5 \in {2, 4}, b \in {1, 3}, n1 \in {1, 3, 4},
        c \in {1, 2}}

VolumeConfigs ==
    {[DefaultConfig EXCEPT !.ENABLE_MULTI_TP = multi_tp,
                           !.VOLUME_SPIKE_MULTIPLIER = multiplier,
                           !.VOLUME_DRYUP_PERCENT = percent] :
        multi_tp \in BOOLEAN, multiplier \in {1, 3}, percent \in {10, 50}}

InitVolume ==
    /\ cfg \in VolumeConfigs
    /\ tracked = TRUE
    /\ td = NewTrackingData(BUY_PRICE, VOLUME_NOW)
    /\ auto_sell_locks = "False"
    /\ now = VOLUME_NOW
    /\ websocket_subscriptions = FALSE
    /\ volume_present \in BOOLEAN
    /\ volume_history \in IF volume_present THEN VolumeHistories ELSE {<<>>}
    /\ balance = BUY_LAMPORTS
    /\ sells = [i \in SellSlots |-> IdleSell]
    /\ buys = [i \in BuySlots |-> NoBuy]
    /\ menu = "idle"
    /\ stop_event = FALSE
    /\ last_eval = NoEval
    /\ events = 0
    /\ seen = NoneSeen
    /\ paper = NoPaper
    /\ swap = NoSwap
    /\ submit = NoSubmit
    /\ tip = NoTip
    /\ confirm = NoConfirm
    /\ telegram = NoTelegram
    /\ safety = NoSafety

SpecVolume == InitVolume /\ [][NextEval]_vars

----------------------------------------------------------------------------
(* The price history of a position that has been tracked for a long time,   *)
(* live and on paper: the trackers tick on histories next to their capacity *)

HistoryRoom == 2         \* free entries of the shortest history

\* the history after n - 1 ticks at times 1, 2, ...: the entry of the buy
\* first, then what each tick appended
LongHistory(n, value) ==
    [k \in 1..n |-> IF k = 1 THEN <<0, BUY_PRICE>> ELSE <<k - 1, value>>]

HistoryLengths == (HISTORY_CAP - HistoryRoom)..HISTORY_CAP

InitHistory ==
    /\ cfg = DefaultConfig
    /\ tracked = TRUE
    /\ \E n \in HistoryLengths :
           td = [NewTrackingData(BUY_PRICE, 0) EXCEPT
                     !.current_price = to_thread_check_token_price,
                     !.last_check = n - 1,
                     !.price_history = LongHistory(n, to_thread_check_token_price)]
    /\ auto_sell_locks = "False"
    /\ websocket_subscriptions = FALSE
    /\ volume_present = FALSE
    /\ volume_history = <<>>
    /\ balance = BUY_LAMPORTS
    /\ sells = [i \in SellSlots |-> IdleSell]
    /\ buys = [i \in BuySlots |->
                  IF i = 1 THEN [NoBuy EXCEPT !.waiter = "done", !.tracker = "running",
                                              !.end_time = PRICE_CHECK_DURATION]
                  ELSE NoBuy]
    /\ menu = "idle"
    /\ now = HISTORY_CAP
    /\ stop_event = FALSE
    /\ last_eval = NoEval
    /\ events = 0
    /\ seen = NoneSeen
    /\ \E n \in HistoryLengths :
           paper = [NoPaper EXCEPT
                        !.tokens = PAPER_TOKENS, !.tracked = TRUE, !.lock = "False",
                        !.tracker = "running", !.end_time = PRICE_CHECK_DURATION,
                        !.buys = 1,
                        !.td = [NewPaperTrackingData(BUY_PRICE, 0) EXCEPT
                                    !.last_check = n - 1,
                                    !.price_history = LongHistory(n, BUY_PRICE)]]
    /\ swap = NoSwap
    /\ submit = NoSubmit
    /\ tip = NoTip
    /\ confirm = NoConfirm
    /\ telegram = NoTelegram
    /\ safety = NoSafety

NextHistory ==
    \/ \E i \in BuySlots : track_token_price(i)
    \/ \E current_price \in Prices \cup {NoneVal} : track_paper_token_price(current_price)
    \/ clock_advance

SpecHistory == InitHistory /\ [][NextHistory]_vars

----------------------------------------------------------------------------
(* The swap pipeline: execute_swap_async of jito.py and of raydium.py.  A   *)
(* step is one attempt, that is one level of the recursion.  Slippage is    *)
(* held in 1/64 of a basis point, so that the factors 1.5 and 1 + 0.5 * n   *)
(* are exact; price impact is in hundredths of a percent.                   *)

SLIPPAGE_UNITS == 64                  \* units of slippage in one basis point
ONE_PERCENT == 100 * SLIPPAGE_UNITS

\* max_retries = max_retries or Config.MAX_SWAP_RETRIES
effective_max_retries(max_retries, c) ==
    IF max_retries = NoneVal \/ max_retries = 0 THEN c.MAX_SWAP_RETRIES ELSE max_retries

\* jito.py line 466: slippage_percent * (1 + (retry_count * 0.5))
adjusted_slippage(slippage_percent, retry_count) ==
    (slippage_percent * (2 + retry_count)) \div 2

\* int(slippage * 100)
slippage_bps(slippage) == slippage \div SLIPPAGE_UNITS

\* what an attempt leaves in swap.hist
Attempt(w, bps, impact, dust, outcome) ==
    [retry_count |-> w.retry_count, amount_in |-> w.amount_in, slippage_bps |-> bps,
     impact |-> impact, dust |-> dust, outcome |-> outcome]

\* return await execute_swap_async(..., amount_in, slippage_percent, retry_count + 1, max_retries)
retry_call(w, amount_in, slippage_percent) ==
    [w EXCEPT !.amount_in = amount_in, !.slippage_percent = slippage_percent,
              !.retry_count = @ + 1]

\* return False, None
returns_failure(w) == [w EXCEPT !.pc = "returned", !.success = FALSE]

\* if retry_count < max_retries: retry with the same arguments; else fail
retry_or_fail(w) ==
    IF w.retry_count < w.max_retries
    THEN retry_call(w, w.amount_in, w.slippage_percent)
    ELSE returns_failure(w)

\* an exception leaves execute_swap_async
raises(w) == [w EXCEPT !.pc = "raised", !.success = FALSE]

\* jito.py line 540: "await asyncio.to_thread(prepare_jito_transaction, ...)";
\* prepare_jito_transaction is a coroutine function, so raw_tx is the
\* un-awaited coroutine object
to_thread_prepare_jito_transaction == CoroObj

\* jito.py lines 325-335: tx.message of anything but a transaction raises
\* inside the try, and the function returns None
sign_transaction_async(tx) == IF tx = CoroObj THEN NoneVal ELSE tx

\* jito.py lines 132-142 called on a running event loop: "custom" answers
\* from Config; otherwise get_network_congestion runs run_until_complete of a
\* new loop, which raises RuntimeError while another loop is running
calculate_tip_amount_raises(c) == c.PRIORITY_FEE_MODE # "custom"

\* jito.py lines 493-500: the abort test sits inside the warning test
jito_abort(price_impact, c) ==
    price_impact > c.PRICE_IMPACT_WARNING /\ price_impact > c.PRICE_IMPACT_ABORT

\* raydium.py lines 349-351
raydium_abort(price_impact, c) == price_impact > c.PRICE_IMPACT_ABORT

\* the outcome of the attempt under way
with_outcome(v, outcome) == [v EXCEPT !.hist[Len(v.hist)].outcome = outcome]

\* jito.py lines 536-606 once the swap transaction has been fetched
jito_sign_and_submit(v) ==
    IF calculate_tip_amount_raises(cfg) THEN raises(with_outcome(v, "tip"))
    ELSE LET raw_tx == to_thread_prepare_jito_transaction
         IN IF raw_tx = NoneVal THEN retry_or_fail(with_outcome(v, "prepare"))
            ELSE IF sign_transaction_async(raw_tx) = NoneVal
            THEN retry_or_fail(with_outcome(v, "sign"))
            ELSE \* submit_transaction_parallel_async raises TypeError (see below)
                 raises(with_outcome(v, "submit"))

\* one attempt of jito.py's execute_swap_async.  quote is the price impact of
\* the quote (NoneVal: no quote), dust says that its outAmount is below
\* 0.005 SOL, swap_tx that get_swap_tx_async returned a transaction
jito_execute_swap_async(quote, dust, swap_tx) ==
    /\ swap.impl = "jito" /\ swap.pc = "running"
    /\ LET max_retries == effective_max_retries(swap.max_retries, cfg)
           bps == slippage_bps(adjusted_slippage(swap.slippage_percent, swap.retry_count))
           is_dust == quote # NoneVal /\ ~swap.input_is_sol /\ dust
           w(outcome) == [swap EXCEPT !.max_retries = max_retries,
                                      !.hist = Append(@, Attempt(swap, bps, quote, is_dust,
                                                                 outcome))]
           reduced_amount == (swap.amount_in * 8) \div 10
       IN swap' =
            IF quote = NoneVal THEN retry_or_fail(w("quote"))
            ELSE IF jito_abort(quote, cfg) THEN returns_failure(w("abort"))
            ELSE IF is_dust /\ swap.retry_count < max_retries /\ reduced_amount > 0
            THEN retry_call(w("dust"), reduced_amount, swap.slippage_percent)
            ELSE IF is_dust /\ swap.retry_count >= max_retries
            THEN returns_failure(w("dust"))
            ELSE IF ~swap_tx THEN retry_or_fail(w("build"))
            ELSE jito_sign_and_submit(w("built"))
    /\ UNCHANGED <<cfg, tracked, td, auto_sell_locks, websocket_subscriptions,
                   volume_present, volume_history, balance, sells, buys, menu, now,
                   stop_event, last_eval, events, seen, paper, submit, tip, confirm, telegram, safety>>

\* one attempt of raydium.py's execute_swap_async.  pool: find_pool_by_mints
\* found the pool; outcome: what the rest of the try block came to
raydium_execute_swap_async(quote, pool, outcome) ==
    /\ swap.impl = "raydium" /\ swap.pc = "running"
    /\ LET max_retries == effective_max_retries(swap.max_retries, cfg)
           bps == slippage_bps(swap.slippage_percent)
           w(o) == [swap EXCEPT !.max_retries = max_retries,
                                !.hist = Append(@, Attempt(swap, bps, quote, FALSE, o))]
           escalate(v) == IF v.retry_count < v.max_retries
                          THEN retry_call(v, v.amount_in, (v.slippage_percent * 3) \div 2)
                          ELSE returns_failure(v)
       IN swap' =
            IF quote = NoneVal THEN retry_or_fail(w("quote"))
            ELSE IF raydium_abort(quote, cfg) THEN returns_failure(w("abort"))
            ELSE IF ~pool THEN returns_failure(w("pool"))
            ELSE IF outcome = "raise" THEN retry_or_fail(w("error"))
            ELSE IF outcome = "nosig" THEN escalate(w("submit"))
            ELSE IF outcome = "confirmed"
            THEN [w("confirmed") EXCEPT !.pc = "returned", !.success = TRUE]
            ELSE escalate(w("confirm"))
    /\ UNCHANGED <<cfg, tracked, td, auto_sell_locks, websocket_subscriptions,
                   volume_present, volume_history, balance, sells, buys, menu, now,
                   stop_event, last_eval, events, seen, paper, submit, tip, confirm, telegram, safety>>

\* submit_transaction_parallel_async of jito.py.  Results of a channel: a
\* signature, NoneVal, or RaisedVal for a send that raises
RaisedVal == -3
SIG_JITO == 1           \* the signature Jito answers with
SIG_RPC == 2            \* the signature the RPC node answers with

\* asyncio.create_task takes a coroutine; anything else is a TypeError
create_task_accepts(awaitable) == awaitable = "coroutine"

\* jito.py lines 428-449: asyncio.wait(..., FIRST_COMPLETED), the result of the
\* task that is done if it is non-empty, the pending task cancelled
first_completed_result(first, jito_result, regular_result) ==
    LET result == IF first = "jito" THEN jito_result ELSE regular_result
    IN IF result = RaisedVal THEN NoneVal ELSE result

\* the call: line 416 creates the Jito task, lines 419-426 hand the RPC send
\* to the thread pool and pass the Future that run_in_executor returns to
\* asyncio.create_task
submit_transaction_parallel_async ==
    /\ submit.pc = "called"
    /\ submit' =
         IF create_task_accepts("future")
         THEN [submit EXCEPT !.pc = "returned",
                             !.tx_sig = first_completed_result(submit.first,
                                            submit.jito_result, submit.regular_result),
                             !.jito_task = IF submit.first = "jito" THEN "done"
                                           ELSE "cancelled",
                             !.regular = IF submit.first = "jito" THEN "cancelled"
                                         ELSE "done"]
         ELSE [submit EXCEPT !.pc = "raised", !.jito_task = "scheduled",
                             !.regular = "sending"]
    /\ UNCHANGED <<cfg, tracked, td, auto_sell_locks, websocket_subscriptions,
                   volume_present, volume_history, balance, sells, buys, menu, now,
                   stop_event, last_eval, events, seen, paper, swap, tip, confirm, telegram, safety>>

\* the Jito task left on the event loop runs submit_to_jito_async
submit_to_jito_async ==
    /\ submit.jito_task = "scheduled"
    /\ submit' = [submit EXCEPT !.jito_task = "done"]
    /\ UNCHANGED <<cfg, tracked, td, auto_sell_locks, websocket_subscriptions,
                   volume_present, volume_history, balance, sells, buys, menu, now,
                   stop_event, last_eval, events, seen, paper, swap, tip, confirm, telegram, safety>>

\* the pool thread finishes solana_client.send_raw_transaction
send_raw_transaction ==
    /\ submit.regular = "sending"
    /\ submit' = [submit EXCEPT !.regular = "done"]
    /\ UNCHANGED <<cfg, tracked, td, auto_sell_locks, websocket_subscriptions,
                   volume_present, volume_history, balance, sells, buys, menu, now,
                   stop_event, last_eval, events, seen, paper, swap, tip, confirm, telegram, safety>>

\* TIP_LEVELS of jito.py, in lamports
TIP_LEVELS ==
    [low |-> 100000, medium |-> 300000, high |-> 1000000, extreme |-> 5000000]
PRIORITY_FEE_LAMPORTS == 500000     \* Config.PRIORITY_FEE_LAMPORTS

\* jito.py lines 72-122: the cached level while it is fresh; else the level of
\* the sample, which is cached; "medium" when the sample fails or is empty
congestion_level(sample) ==
    IF sample < 1000 THEN "low"
    ELSE IF sample < 3000 THEN "medium"
    ELSE IF sample < 5000 THEN "high" ELSE "extreme"

get_network_congestion_async(t) ==
    IF t.fresh THEN [level |-> t.level, cache |-> t]
    ELSE IF t.sample \in {RaisedVal, NoneVal} THEN [level |-> "medium", cache |-> t]
    ELSE [level |-> congestion_level(t.sample),
          cache |-> [t EXCEPT !.level = congestion_level(t.sample), !.fresh = TRUE]]

\* jito.py lines 124-130: run_until_complete of a new event loop.  It raises
\* RuntimeError when an event loop is running in the calling thread, before
\* get_network_congestion_async has taken a step
get_network_congestion(t, loop_running) ==
    IF loop_running THEN [level |-> "RuntimeError", cache |-> t]
    ELSE get_network_congestion_async(t)

\* jito.py line 533 is the one call of calculate_tip_amount, made by the
\* coroutine execute_swap_async
called_on_running_loop == TRUE

\* jito.py lines 132-142
calculate_tip_amount ==
    /\ tip.pc = "called"
    /\ tip' =
         IF cfg.PRIORITY_FEE_MODE = "custom"
         THEN [tip EXCEPT !.pc = "returned", !.result = PRIORITY_FEE_LAMPORTS]
         ELSE LET congestion == get_network_congestion(tip, called_on_running_loop)
              IN IF congestion.level = "RuntimeError"
                 THEN [tip EXCEPT !.pc = "raised"]
                 ELSE [congestion.cache EXCEPT !.pc = "returned",
                                               !.result = TIP_LEVELS[congestion.level]]
    /\ UNCHANGED <<cfg, tracked, td, auto_sell_locks, websocket_subscriptions,
                   volume_present, volume_history, balance, sells, buys, menu, now,
                   stop_event, last_eval, events, seen, paper, swap, submit, confirm, telegram, safety>>

TipCalls ==
    {[NoTip EXCEPT !.pc = "called", !.level = level, !.fresh = fresh, !.sample = sample] :
        level \in {"low", "medium", "extreme"}, fresh \in BOOLEAN,
        sample \in {RaisedVal, NoneVal, 500, 4000}}

\* confirm_transaction_async of solanaa.py
CONFIRM_MAX_RETRIES == 20       \* "max_retries = max_retries or 20"

confirm_max_retries(max_retries) ==
    IF max_retries = NoneVal \/ max_retries = 0 THEN CONFIRM_MAX_RETRIES ELSE max_retries

\* range(1, max_retries + 1) with a check too many
in_range_and_one(attempt, max_retries) == attempt >= 1 /\ attempt <= max_retries + 1

\* "for attempt in range(1, max_retries + 1)"
in_range(attempt, max_retries) == attempt >= 1 /\ attempt <= max_retries

\* one pass of the loop: the transaction is looked up at the primary RPC, at
\* the backup RPC and by getSignatureStatuses; any of the three that sees it
\* returns True: a non-empty "result" of getTransaction (lines 345-349,
\* 364-368) or a confirmationStatus of confirmed or finalized (line 387),
\* which a landed transaction gives whether or not it is recorded as failed.  After a pass that saw nothing the loop goes on, or ends and
\* False is returned
confirm_transaction_async(primary, backup, status) ==
    /\ confirm.pc = "running"
    /\ LET max_retries == confirm_max_retries(confirm.max_retries)
           attempt == Len(confirm.checks) + 1
           seen_confirmed == primary \/ backup \/ status
           after == [confirm EXCEPT !.checks = Append(@, seen_confirmed)]
       IN confirm' =
            IF seen_confirmed THEN [after EXCEPT !.pc = "returned", !.result = TRUE]
            ELSE IF in_range(attempt + 1, max_retries) THEN after
            ELSE [after EXCEPT !.pc = "returned", !.result = FALSE]
    /\ UNCHANGED <<cfg, tracked, td, auto_sell_locks, websocket_subscriptions,
                   volume_present, volume_history, balance, sells, buys, menu, now,
                   stop_event, last_eval, events, seen, paper, swap, submit, tip, telegram, safety>>

ConfirmCalls ==
    {[NoConfirm EXCEPT !.pc = "running", !.max_retries = max_retries, !.outer = outer,
                       !.err = err] :
        max_retries \in {NoneVal, 3}, outer \in {0, 2}, err \in BOOLEAN}

\* the calls and settings the pipeline is checked on
SwapImpacts == {0, 700, 1200}
SwapConfigs ==
    {[DefaultConfig EXCEPT !.MAX_SWAP_RETRIES = retries, !.PRICE_IMPACT_WARNING = warning,
                           !.PRIORITY_FEE_MODE = mode] :
        retries \in {0, 2}, warning \in {500, 1500}, mode \in {"auto", "custom"}}
SwapCalls ==
    {[NoSwap EXCEPT !.impl = impl, !.pc = "running", !.input_is_sol = buy,
                    !.amount0 = amount, !.amount_in = amount,
                    !.slippage0 = slippage, !.slippage_percent = slippage] :
        impl \in {"jito", "raydium"}, buy \in BOOLEAN, amount \in {1, BUY_LAMPORTS},
        slippage \in {DEFAULT_SLIPPAGE * ONE_PERCENT, ESCALATED_SLIPPAGE * ONE_PERCENT}}
SubmitCalls ==
    {[NoSubmit EXCEPT !.pc = "called", !.jito_result = a, !.regular_result = b,
                      !.first = first] :
        a \in {NoneVal, SIG_JITO}, b \in {NoneVal, SIG_RPC, RaisedVal},
        first \in {"jito", "regular"}}

InitSwap ==
    /\ cfg \in SwapConfigs
    /\ \/ swap \in SwapCalls /\ submit = NoSubmit /\ tip = NoTip /\ confirm = NoConfirm
       \/ swap = NoSwap /\ submit \in SubmitCalls /\ tip = NoTip /\ confirm = NoConfirm
       \/ swap = NoSwap /\ submit = NoSubmit /\ tip \in TipCalls /\ confirm = NoConfirm
       \/ swap = NoSwap /\ submit = NoSubmit /\ tip = NoTip /\ confirm \in ConfirmCalls
    /\ telegram = NoTelegram
    /\ safety = NoSafety
    /\ tracked = FALSE
    /\ td = NoTrackingData
    /\ auto_sell_locks = "absent"
    /\ websocket_subscriptions = FALSE
    /\ volume_present = FALSE
    /\ volume_history = <<>>
    /\ balance = 0
    /\ sells = [i \in SellSlots |-> IdleSell]
    /\ buys = [i \in BuySlots |-> NoBuy]
    /\ menu = "idle"
    /\ now = 0
    /\ stop_event = FALSE
    /\ last_eval = NoEval
    /\ events = 0
    /\ seen = NoneSeen
    /\ paper = NoPaper

NextSwap ==
    \/ \E quote \in SwapImpacts \cup {NoneVal}, dust \in BOOLEAN, swap_tx \in BOOLEAN :
           jito_execute_swap_async(quote, dust, swap_tx)
    \/ \E quote \in SwapImpacts \cup {NoneVal}, pool \in BOOLEAN,
          outcome \in {"raise", "nosig", "unconfirmed", "confirmed"} :
           raydium_execute_swap_async(quote, pool, outcome)
    \/ submit_transaction_parallel_async
    \/ submit_to_jito_async
    \/ send_raw_transaction
    \/ calculate_tip_amount
    \/ \E primary \in BOOLEAN, backup \in BOOLEAN, status \in BOOLEAN :
           confirm_transaction_async(primary, backup, status)

SpecSwap == InitSwap /\ [][NextSwap]_vars

----------------------------------------------------------------------------
(* Properties *)

InFlightSells == {i \in SellSlots : InFlight(i)}

C2_SoldPercentageMonotoneBounded ==
    [][tracked' => /\ td'.sold_percentage <= 100
                   /\ tracked => td'.sold_percentage >= td.sold_percentage]_vars

RECURSIVE CumulativePct(_, _)
CumulativePct(levels, k) == IF k = 0 THEN 0 ELSE levels[k][1] + CumulativePct(levels, k - 1)

\* the levels that are due: trigger reached and cumulative-% above what is sold
DueLevels(levels, sold, percent_change) ==
    {k \in 1..Len(levels) : /\ levels[k][2] <= percent_change
                            /\ CumulativePct(levels, k) > sold}

\* the share of the position that the levels reached by percent_change add up to
RECURSIVE ReachedShare(_, _, _)
ReachedShare(levels, k, percent_change) ==
    IF k = 0 THEN 0
    ELSE (IF levels[k][2] <= percent_change THEN levels[k][1] ELSE 0)
         + ReachedShare(levels, k - 1, percent_change)

ConfiguredLevels == IF cfg.ENABLE_MULTI_TP THEN parse_items(cfg.TP_LEVELS) ELSE <<>>

\* last_eval is an evaluation of a tracked position that no sell has locked
UnlockedEvaluation ==
    /\ last_eval.caller # "none"
    /\ last_eval.tracked
    /\ last_eval.lock # "True"

MultiTpDue ==
    DueLevels(ConfiguredLevels, last_eval.pre.sold_percentage,
              last_eval.pre.percent_change) # {}

StopLossDue == last_eval.pre.percent_change <= cfg.STOP_LOSS

\* the stop was armed before the evaluation and the price is below it
TrailingStopDue ==
    /\ cfg.EXIT_STRATEGY = "TRAILING_STOP"
    /\ last_eval.pre.trailing_stop_price > 0
    /\ last_eval.pre.current_price < last_eval.pre.trailing_stop_price

FullTpDue ==
    /\ cfg.EXIT_STRATEGY = "FULL_TP"
    /\ last_eval.pre.percent_change >= cfg.PROFIT_TARGET

MaxHoldDue == last_eval.time_now - last_eval.pre.buy_time > cfg.MAX_HOLD_TIME

\* the stop the evaluation leaves in force is above the current price
StopInForceDue ==
    /\ cfg.EXIT_STRATEGY = "TRAILING_STOP"
    /\ last_eval.dec.td.trailing_stop_price > 0
    /\ last_eval.pre.current_price < last_eval.dec.td.trailing_stop_price

FullSell == last_eval.dec.should_sell /\ last_eval.dec.sell_percentage = 100

\* C4: under TRAILING_STOP, an evaluation of an unlocked position whose armed
\* stop is above the current price, with no multi-TP, volume or stop-loss
\* match, returns a full sell whose reason carries the armed exit ROI
C4_TrailingStopExits ==
    (UnlockedEvaluation /\ TrailingStopDue /\ ~MultiTpDue /\ ~StopLossDue
        /\ last_eval.dec.reason.tag # "Volume alert")
    => /\ FullSell
       /\ last_eval.dec.reason.tag = "Trailing stop triggered"
       /\ last_eval.dec.reason.arg = last_eval.dec.td.trailing_stop_roi

\* C5: an evaluation of an unlocked position with percent_change <= STOP_LOSS
\* returns a full sell, armed trailing stop or not, whatever the strategy
C5_StopLossExits == (UnlockedEvaluation /\ StopLossDue) => FullSell

\* C5 witness: the stop loss sells in full at -20.01% under TRAILING_STOP with
\* no trailing stop armed
C5_Witness ==
    /\ UnlockedEvaluation
    /\ cfg.EXIT_STRATEGY = "TRAILING_STOP"
    /\ last_eval.pre.percent_change = -2001
    /\ last_eval.pre.trailing_stop_price = 0
    /\ FullSell
    /\ last_eval.dec.reason.tag = "Stop loss triggered"

\* C7: when multi-level TP fires it picks the first due level in configured
\* order and asks to sell that level's cumulative-% minus sold_percentage
C7_SellsTheDelta ==
    (UnlockedEvaluation /\ MultiTpDue)
    => LET levels == ConfiguredLevels
           sold == last_eval.pre.sold_percentage
           k == Min(DueLevels(levels, sold, last_eval.pre.percent_change))
       IN /\ last_eval.dec.should_sell
          /\ last_eval.dec.reason.tag = "TP Level reached"
          /\ last_eval.dec.reason.arg = levels[k][2]
          /\ last_eval.dec.sell_percentage = CumulativePct(levels, k) - sold

\* the reason of the first rule that matches, in the order multi-level TP,
\* stop loss, trailing stop, full take profit, max hold time
FirstDueRule ==
    IF MultiTpDue THEN "TP Level reached"
    ELSE IF StopLossDue THEN "Stop loss triggered"
    ELSE IF StopInForceDue THEN "Trailing stop triggered"
    ELSE IF FullTpDue THEN "Profit target reached"
    ELSE IF MaxHoldDue THEN "Max hold time reached"
    ELSE "No sell conditions met"

\* C8: an evaluation returns the decision of the first rule that matches; a
\* rule that matches is never passed over because an earlier branch returned
\* without selling
C8_FirstMatchDecides ==
    (UnlockedEvaluation /\ last_eval.dec.reason.tag # "Volume alert")
    => /\ last_eval.dec.should_sell <=> FirstDueRule # "No sell conditions met"
       /\ last_eval.dec.should_sell => last_eval.dec.reason.tag = FirstDueRule

\* C9: once the time since the buy exceeds MAX_HOLD_TIME, an evaluation of an
\* unlocked position on which no earlier rule sells returns a full sell,
\* whatever the profit or loss and the strategy
C9_MaxHoldExits ==
    (UnlockedEvaluation /\ MaxHoldDue)
    => \/ FullSell
       \/ last_eval.dec.should_sell /\ last_eval.dec.reason.tag = "TP Level reached"

C10_SignalledSellCompletes ==
    (paper.signal # "none" /\ paper.signal_free /\ paper.tracker = "ended")
    => (paper.lock # "True" /\ ~paper.tracked)

\* a step in which sell slot i leaves the swap for another attempt
Retried(i) == sells[i].pc = "swap" /\ sells'[i].pc = "balance"

\* a tracker iteration: the only step that lengthens price_history
TrackerTick == tracked /\ tracked' /\ Len(td'.price_history) > Len(td.price_history)

\* a rule of the evaluator matches the position as the step leaves it
RuleDueAfter ==
    \/ DueLevels(ConfiguredLevels, td'.sold_percentage, td'.percent_change) # {}
    \/ td'.percent_change <= cfg.STOP_LOSS

\* a retry of slot i is the one at slippage 5 or, after it, the one at 50%
EscalationStep(i) ==
    Retried(i) =>
        \/ /\ sells[i].slippage < ESCALATED_SLIPPAGE
           /\ sells'[i].slippage = ESCALATED_SLIPPAGE
           /\ sells'[i].percentage = sells[i].percentage
        \/ /\ sells[i].slippage >= ESCALATED_SLIPPAGE
           /\ sells[i].percentage > ESCALATED_PERCENTAGE
           /\ sells'[i].slippage = sells[i].slippage
           /\ sells'[i].percentage = ESCALATED_PERCENTAGE

\* the failure reported as critical comes after both retries and returns
\* with the position tracked as before and the lock clear
FinalFailureStep ==
    (seen'.failed > seen.failed) =>
        /\ tracked' = tracked
        /\ auto_sell_locks' = "False"
        /\ \E i \in SellSlots :
               /\ sells[i].pc = "swap" /\ sells'[i].pc = "idle"
               /\ sells[i].slippage >= ESCALATED_SLIPPAGE
               /\ sells[i].percentage <= ESCALATED_PERCENTAGE

\* a tracker tick after a final failure signals a sell when a rule matches
TickAfterFailureStep ==
    (seen.failed > 0 /\ TrackerTick /\ cfg.AUTO_SELL /\ auto_sell_locks # "True"
        /\ RuleDueAfter)
    => \E i \in SellSlots : sells[i].pc = "idle" /\ sells'[i].pc = "created"

C12_AbortOnExtremeImpact ==
    \A k \in 1..Len(swap.hist) :
        (swap.hist[k].impact # NoneVal /\ swap.hist[k].impact > cfg.PRICE_IMPACT_ABORT)
            => /\ swap.hist[k].outcome = "abort"
               /\ k = Len(swap.hist)
               /\ swap.pc = "returned" /\ ~swap.success


\* the failures that are not a price-impact abort and not a dust quote
RetriedFailures == {"quote", "pool", "build", "prepare", "sign", "submit", "confirm", "error"}

\* C13: a call of execute_swap_async makes at most max_retries + 1 attempts;
\* every failure other than the price-impact abort is retried while the
\* shared counter is below max_retries, and the call returns failure for such
\* a failure only when the counter has reached max_retries.
C13_SharedRetryBudget ==
    /\ swap.hist # <<>> => Len(swap.hist) <= swap.max_retries + 1
    /\ \A k \in 1..Len(swap.hist) :
        (swap.hist[k].outcome \in RetriedFailures
            /\ swap.hist[k].retry_count < swap.max_retries)
            => k < Len(swap.hist) \/ swap.pc = "running"


\* C14: on the attempt with retry count n the slippage of the quote request is
\* the caller's slippage times (1 + 0.5 * n), whatever failures caused the
\* retries before it.
C14_SlippageSchedule ==
    \A k \in 1..Len(swap.hist) :
        swap.hist[k].slippage_bps =
            slippage_bps(adjusted_slippage(swap.slippage0, swap.hist[k].retry_count))


\* C15: a dust quote on a sell of a non-SOL token never has a transaction
\* built for it, and when it is retried the next attempt offers 80% of the
\* original amount at a slippage no larger than that of the dust attempt.
C15_DustRetryReducesAmount ==
    \A k \in 1..Len(swap.hist) :
        swap.hist[k].dust
            => /\ swap.hist[k].outcome \in {"dust", "abort"}
               /\ (swap.hist[k].outcome = "dust" /\ k < Len(swap.hist))
                    => /\ swap.hist[k + 1].amount_in = (swap.amount0 * 8) \div 10
                       /\ swap.hist[k + 1].slippage_bps <= swap.hist[k].slippage_bps


\* C17: no exception leaves execute_swap_async; every failure inside it ends
\* in a returned result.
C17_NoExceptionEscapes == swap.pc # "raised"


\* the signature the race of the two channels should give: that of the first
\* channel to answer with a signature, NoneVal when neither does
RaceResult ==
    LET sig(result) == result # NoneVal /\ result # RaisedVal
        a == IF submit.first = "jito" THEN submit.jito_result ELSE submit.regular_result
        b == IF submit.first = "jito" THEN submit.regular_result ELSE submit.jito_result
    IN IF sig(a) THEN a ELSE IF sig(b) THEN b ELSE NoneVal

\* C16: once called, submit_transaction_parallel_async returns the signature
\* of the first channel that answers with a non-empty result, and None
\* exactly when both channels fail.
C16_FirstSignatureWins ==
    submit.pc \notin {"idle", "called"}
        => submit.pc = "returned" /\ submit.tx_sig = RaceResult


\* C18: at most one price-tracking loop of the token is running at any time.
C18_SingleTrackingLoop ==
    Cardinality({i \in BuySlots : buys[i].tracker = "running"}) <= 1


\* C19: a confirmed buy whose tokens are visible to the balance poll gets its
\* tracking entry and its tracking loop, on the awaited path and on the path
\* of the synchronous wrapper alike: as long as no poll has missed the
\* tokens, the buy's waiter is still polling or its tracker has been started.
C19_TrackingFollowsBuy ==
    \A i \in BuySlots :
        (buys[i].waiter # "none" /\ buys[i].attempt = 0)
            => buys[i].waiter = "polling" \/ buys[i].tracker # "none"


\* C20: the tracking loop of the token ends only when the position is closed
\* and its entry removed or when shutdown has been signalled, and it runs no
\* further iteration once either has happened.
C20_LoopRunsWhileOpen ==
    [][/\ \A i \in BuySlots :
            (buys[i].tracker = "running" /\ buys'[i].tracker = "ended")
                => ~tracked \/ stop_event
       /\ TrackerTick => ~stop_event]_vars


\* C21: once stop_event is set, no further tracker iteration is started and
\* no failed sell is started again by the escalation of sell_token_async.
C21_ShutdownStopsRetries ==
    [][stop_event => (~TrackerTick /\ \A i \in SellSlots : ~Retried(i))]_vars


\* the price fields of the tracking data
PriceFields(t) ==
    <<t.current_price, t.percent_change, t.high_price, t.low_price,
      t.trailing_stop_price, t.price_history>>

\* C22: while the sell lock of the tracked token is held, no step changes
\* current_price, percent_change, high_price, low_price, trailing_stop_price
\* or price_history of its tracking data.
C22_OnlySoldPercentageWhileLocked ==
    [][(auto_sell_locks = "True" /\ auto_sell_locks' = "True" /\ tracked /\ tracked')
          => PriceFields(td') = PriceFields(td)]_vars


\* C23: a position whose sold_percentage has reached 100 is retired: no entry
\* of Config.price_tracking holds a sold_percentage of 100 or more.
C23_RetiredWhenFullySold == tracked => td.sold_percentage < 100


\* what the caller of the evaluator receives
Returned(d) == <<d.should_sell, d.reason, d.sell_percentage>>

\* the evaluation of the same position under the same configuration at the
\* same time with the sell lock clear
SameInputsUnlocked ==
    check_enhanced_sell_conditions(last_eval.tracked, "False", last_eval.pre, cfg,
                                   volume_present, volume_history, last_eval.time_now)

\* C24: the decision of the exit evaluator is a function of the position and
\* the configuration alone: the evaluation made returns what an evaluation of
\* the same position and configuration returns when the sell lock is clear.
C24_EvaluatorIsPure ==
    last_eval.caller # "none" => Returned(last_eval.dec) = Returned(SameInputsUnlocked)


\* low_price <= current_price <= high_price
WithinExtremes(t) == t.low_price <= t.current_price /\ t.current_price <= t.high_price

WindowVolume(window) ==
    LET S == {k \in 1..Len(volume_history) :
                 last_eval.time_now - volume_history[k][1] <= window}
        f[T \in SUBSET S] ==
            IF T = {} THEN 0
            ELSE LET k == CHOOSE x \in T : TRUE IN volume_history[k][2] + f[T \ {k}]
    IN f[S]

\* the evaluation had volume monitoring on and enough samples, and no
\* multi-TP level was due
VolumeEvaluation ==
    /\ last_eval.caller # "none"
    /\ cfg.ENABLE_VOLUME_MONITORING /\ volume_present
    /\ Len(volume_history) >= MIN_VOLUME_SAMPLES
    /\ ~MultiTpDue

\* 1-minute volume >= multiplier * (5-minute volume / 5)
SpikeDue ==
    /\ WindowVolume(WINDOW_5MIN) > 0
    /\ 5 * WindowVolume(WINDOW_1MIN) >= cfg.VOLUME_SPIKE_MULTIPLIER * WindowVolume(WINDOW_5MIN)

\* (5-minute volume / 5) < percent / 100 * (30-minute volume / 30)
DryUpDue ==
    30 * 100 * WindowVolume(WINDOW_5MIN)
        < 5 * cfg.VOLUME_DRYUP_PERCENT * WindowVolume(WINDOW_30MIN)

\* C26: with volume monitoring on and enough samples, an evaluation returns a
\* full sell whenever the volume of the last minute is at least
\* VOLUME_SPIKE_MULTIPLIER times the per-minute average of the last 5 minutes
\* or the per-minute average of the last 5 minutes is below
\* VOLUME_DRYUP_PERCENT percent of that of the last 30 minutes.
C26_VolumeAnomalyExits ==
    (VolumeEvaluation /\ (SpikeDue \/ DryUpDue)) => FullSell


\* C27: an evaluation of a token that has no volume history, or fewer than
\* MIN_VOLUME_SAMPLES samples, never returns a volume alert, whatever the
\* samples are.
C27_NoSignalWithoutSamples ==
    (last_eval.caller # "none"
        /\ (~volume_present \/ Len(volume_history) < MIN_VOLUME_SAMPLES))
        => last_eval.dec.reason.tag # "Volume alert"

\* an evaluation with no multi-TP, on fewer samples than the minimum whose
\* volumes are those of a spike, that returned no sell
C27_Witness ==
    /\ last_eval.caller # "none"
    /\ ~cfg.ENABLE_MULTI_TP /\ cfg.ENABLE_VOLUME_MONITORING
    /\ volume_present
    /\ Len(volume_history) > 0 /\ Len(volume_history) < MIN_VOLUME_SAMPLES
    /\ 10 * WindowVolume(WINDOW_1MIN) > 4 * WindowVolume(WINDOW_5MIN)
    /\ 5 * WindowVolume(WINDOW_1MIN) > cfg.VOLUME_SPIKE_MULTIPLIER * WindowVolume(WINDOW_5MIN)
    /\ ~last_eval.dec.should_sell


\* the tip the call should give: the fixed fee in "custom" mode, else the tip
\* of the congestion level in force, which is "medium" when no sample could
\* be had
ExpectedTip ==
    IF cfg.PRIORITY_FEE_MODE = "custom" THEN PRIORITY_FEE_LAMPORTS
    ELSE IF tip.fresh THEN TIP_LEVELS[tip.level]
    ELSE TIP_LEVELS.medium

\* C28: a call of calculate_tip_amount returns the fixed fee in the fixed fee
\* mode and otherwise the tip of the congestion tier, the medium tier when
\* the congestion cannot be sampled; it does not fail its caller.
C28_TipNeverFails ==
    tip.pc \notin {"idle", "called"}
        => tip.pc = "returned" /\ tip.result = ExpectedTip


\* the number of checks allowed to a call: its max_retries, 20 when none is given
ChecksAllowed ==
    IF confirm.max_retries = NoneVal THEN CONFIRM_MAX_RETRIES ELSE confirm.max_retries

NoneConfirmed(n) == \A k \in 1..n : ~confirm.checks[k]

TickKeepsRecent(old, new) ==
    /\ Len(new) <= HISTORY_CAP
    /\ new # old =>
         /\ Len(new) = (IF Len(old) < HISTORY_CAP THEN Len(old) + 1 ELSE HISTORY_CAP)
         /\ new[Len(new)][1] = now
         /\ \A k \in 1..(Len(new) - 1) : new[k] = old[k + Len(old) + 1 - Len(new)]

\* C30: after every tracker tick the price history of the position holds at
\* most 100 entries, and they are the most recent ones in their order of
\* arrival, in live tracking and in paper tracking.
C30_HistoryBounded ==
    [][/\ (tracked /\ tracked') =>
              TickKeepsRecent(td.price_history, td'.price_history)
       /\ (paper.tracked /\ paper'.tracked) =>
              TickKeepsRecent(paper.td.price_history, paper'.td.price_history)]_vars

\* both trackers have ticked on a full history: each holds 100 entries, the
\* entry of the buy is gone and the entry of the tick is the last one
C30_Witness ==
    /\ tracked /\ paper.tracked
    /\ Len(td.price_history) = HISTORY_CAP
    /\ td.price_history[1][1] > 0
    /\ td.price_history[HISTORY_CAP][1] >= HISTORY_CAP
    /\ Len(paper.td.price_history) = HISTORY_CAP
    /\ paper.td.price_history[1][1] > 0
    /\ paper.td.price_history[HISTORY_CAP][1] >= HISTORY_CAP


\* the step records an evaluation made by the tracker on the position as the
\* step leaves it
EvaluatedInTick ==
    /\ last_eval'.caller = "tracker"
    /\ last_eval'.time_now = now
    /\ last_eval'.pre = td'

\* C31: a tracker iteration whose probe yields a price updates current_price,
\* percent_change and the watermarks from that price and, with AUTO_SELL on,
\* evaluates the exit conditions on the updated values in the same iteration.
C31_TickEvaluates ==
    [][(TrackerTick /\ cfg.AUTO_SELL) =>
          /\ IsNumber(td'.current_price)
          /\ td'.percent_change = Pct(td'.current_price - td.buy_price, td.buy_price)
          /\ td'.high_price >= td'.current_price
          /\ td'.low_price <= td'.current_price
          /\ EvaluatedInTick]_vars


\* the live evaluator and the paper logic on the position of the last
\* evaluation, with the settings and the time of that evaluation; the live
\* evaluator is taken with the sell lock free
LiveOnSame == check_sell_conditions(TRUE, "False", last_eval.pre, cfg, last_eval.time_now)
PaperOnSame == paper_sell_conditions(last_eval.pre, cfg, last_eval.time_now)

TrailingFields(t) == <<t.trailing_stop_price, t.trailing_stop_roi, t.tp_reached>>

\* C32: on equal tracked metrics and equal strategy settings the exit logic
\* of the paper tracker and the live evaluator check_sell_conditions give the
\* same should_sell and sell percentage and make the same trailing-stop
\* updates.
C32_PaperMatchesLive ==
    (last_eval.caller # "none" /\ last_eval.pre.high_price >= last_eval.pre.current_price)
    => /\ PaperOnSame.should_sell = LiveOnSame.should_sell
       /\ PaperOnSame.sell_percentage = LiveOnSame.sell_percentage
       /\ TrailingFields(PaperOnSame.td) = TrailingFields(LiveOnSame.td)


\* the step in which the sell of slot i ends and takes the position out of
\* Config.price_tracking
RemovedBySell(i) ==
    /\ tracked /\ ~tracked'
    /\ sells[i].pc = "swap" /\ sells'[i].pc = "idle"

\* C33: a sell removes the position from Config.price_tracking only when the
\* whole amount it set out to sell, 100% of the token balance, has left the
\* wallet; a split sell removes it only if every chunk went through.
C33_RemovedOnlyWhenAllSold ==
    [][\A i \in SellSlots :
          RemovedBySell(i) => balance - balance' = sells[i].sell_amount]_vars


\* the step in which the sell of slot i ends as a successful partial sell
\* whose swap went through whole
PartialSale(i) ==
    /\ tracked /\ tracked'
    /\ sells[i].pc = "swap"
    /\ td'.sold_percentage > td.sold_percentage
    /\ balance - balance' = sells[i].sell_amount

\* the token was bought once: the holdings at the start of tracking are the
\* tokens of that buy
BoughtOnce == Cardinality({b \in BuySlots : buys[b].waiter # "none"}) = 1

\* C34: sold_percentage is the percentage of the holdings at the start of
\* tracking that has been sold: a successful partial sell that adds p to
\* sold_percentage takes p percent of those holdings out of the wallet.
C34_SoldPercentageOfOriginal ==
    [][\A i \in SellSlots :
          (PartialSale(i) /\ BoughtOnce) =>
              (balance - balance') * 100
                  = (td'.sold_percentage - td.sold_percentage) * BUY_LAMPORTS]_vars


\* C35: confirm_transaction_async never returns True for a signature whose
\* transaction is recorded on chain as failed, so that the swap pipeline
\* reports success only for a transaction that landed without an error.
C35_NoSuccessForFailedTransaction ==
    (confirm.pc = "returned" /\ confirm.err) => ~confirm.result


\* C36: every invocation of sell_token_async that takes the sell lock of the
\* token gives it back before it ends, on every path, the cancellation of the
\* task that runs it included: the lock is held only while a sell is under way.
C36_LockReleasedOnEveryPath ==
    auto_sell_locks = "True" => \E i \in SellSlots : InFlight(i)


\* C37: the sol_balance of the paper portfolio is never negative: a paper buy
\* is rejected for insufficient balance and leaves the portfolio as it was,
\* or it leaves sol_balance >= 0.
C37_PaperBalanceNeverNegative == paper.sol_balance >= 0


\* the buy threads started for an address
BuyThreads(a) == {k \in 1..Len(telegram.threads) : telegram.threads[k].address = a}

\* C38: over all chats and messages each token address starts at most one
\* automatic buy: no two buy threads are given the same address.
C38_OneBuyPerAddress ==
    \A a \in Addresses : Cardinality(BuyThreads(a)) <= 1


\* the step in which the auto-sell of slot i ends with a swap that went
\* through, and db.record_sell stores its exit_reason
CompletedAutoSell(i) ==
    /\ sells[i].pc = "swap" /\ sells[i].origin = "auto"
    /\ sells'[i].pc = "idle"
    /\ balance' < balance

----------------------------------------------------------------------------
(* Buying tokens of every kind: the safety check in front of the swap *)

\* priceImpactPct of the buy quote: none, 0.4%, 3%, 7% and 12%, or no such key
TokenImpacts == {0, 40, 300, 700, 1200, NoneVal}

\* outAmount of the buy quote
TokenOutAmounts == {0, 1000}

\* the answers of the database and of Jupiter, as <<honeypot, raises>> and the
\* quotes; the buy quote is asked for only after the probe quote came back
Tokens ==
    {Token(x[1], x[2], FALSE, FALSE, NoneVal, 0) : x \in BOOLEAN \X BOOLEAN}
    \cup {Token(x[1], x[2], TRUE, FALSE, NoneVal, 0) : x \in BOOLEAN \X BOOLEAN}
    \cup {Token(x[1], x[2], TRUE, TRUE, x[3], x[4]) :
        x \in BOOLEAN \X BOOLEAN \X TokenImpacts \X TokenOutAmounts}

\* BUY_AMOUNT of 0.05 SOL or 1 SOL, CHECK_HONEYPOT on or off
InitBuy ==
    \E buy_amount \in {50, 1000}, check_honeypot \in BOOLEAN :
        InitWith([DefaultConfig EXCEPT !.BUY_AMOUNT = buy_amount,
                                       !.CHECK_HONEYPOT = check_honeypot])

NextBuy ==
    \/ \E token \in Tokens, ok \in BOOLEAN : buy_token_async(token, ok)
    \/ \E token \in Tokens, ok \in BOOLEAN : buy_token(token, ok)
    \/ \E i \in BuySlots, lamports \in {0, balance} :
           wait_for_tokens_and_start_tracking_async(i, lamports)

SpecBuy == InitBuy /\ [][NextBuy]_vars

\* a buy that has just run its safety check and got an unsafe verdict
UnsafeVerdict == safety'.pc = "checked" /\ ~safety'.is_safe

\* C40: a buy whose safety check returns unsafe, or raises, never calls the
\* swap pipeline, records no buy and starts no tracking
C40_UnsafeTokenNeverBought ==
    [][UnsafeVerdict =>
          /\ ~safety'.swap_called
          /\ safety' # safety =>
                /\ balance' = balance
                /\ buys' = buys
                /\ tracked' = tracked /\ td' = td]_vars

\* after one buy of a safe token, a buy of a token whose position would be
\* too large was turned away with the holdings as they were
C40_Witness ==
    /\ safety.pc = "checked"
    /\ safety.safety_msg = "Position too large"
    /\ ~safety.swap_called
    /\ balance = BUY_LAMPORTS

====
